---- MODULE Spec2Model ----
(***************************************************************************)
(* Transformation cache / similarity matching of the AIMSii -> Shopify     *)
(* sync: aiTransformCacheService, aiEnhancedTransformService, the AI       *)
(* provider wrapper and the AI-enhanced sync loop.                         *)
(*                                                                         *)
(* Strings are sequences of one-character strings, so that toLowerCase     *)
(* and trim are computed character by character.  A JavaScript value that  *)
(* is undefined, null or '' in a place where the code only tests it with   *)
(* `||` is the empty sequence.  Similarity scores are kept in tenths       *)
(* (0.4 -> 4, 0.7 -> 7, 0.8 -> 8) so that they stay integers.              *)
(***************************************************************************)
EXTENDS Integers, Sequences, FiniteSets, TLC

VARIABLES
  transformCache,  \* module-level `transformCache` (loaded = FALSE: null)
  disk,            \* ai-transformation-cache.json
  now,             \* logical clock behind new Date().toISOString()
  calls,           \* number of transformProductWithAI calls made so far
  last,            \* what the caller observed of the latest call
  pushed,          \* history: every example ever pushed, per cache key
  maxExamplesPerTemplate, \* config.aiLearning.maxExamplesPerTemplate
  dryRun,          \* config.settings.dryRun
  records,         \* the batch fetched by syncProducts
  i,               \* loop index of syncProducts (0-based)
  pc,              \* position of processInventoryRecord for records[i]
  attempt,         \* attempt counter of the running retryWithBackoff
  skuChecked,      \* checkProductBySkuGraphQL has answered for records[i]
  pending,         \* shopifyProduct awaiting createProductDraft
  stats,           \* syncProducts' stats object
  shopify,         \* SKUs of the products that exist in the Shopify store
  drafts,          \* every call of createProductDraft: [sku, payload, existed]
  processed,       \* how many times each record index has been processed
  mappingFile,     \* ai-field-mappings.json
  aiFieldMappings, \* module-level `aiFieldMappings` of index-ai-enhanced.js
  aiInitialized,   \* module-level `aiInitialized`
  mapCalls,        \* number of field-mapping resolutions started so far
  mapGen,          \* generator calls for a mapping since the file was last
                   \* removed
  mapSaved,        \* mappings persisted since the file was last removed
  mapLast,         \* what the caller observed of the latest resolution
  loadLast,        \* what the caller observed of the latest cache load
  runs,            \* the syncProducts runs the interval timer has started
  fnArg,           \* the argument drawn for a function applied on its own
  fnRes            \* its result (empty: not applied yet)

vars == <<transformCache, disk, now, calls, last, pushed,
          maxExamplesPerTemplate, dryRun, records, i, pc, attempt,
          skuChecked, pending, stats, shopify, drafts, processed,
          mappingFile, aiFieldMappings, aiInitialized, mapCalls, mapGen,
          mapSaved, mapLast, loadLast, runs, fnArg, fnRes>>

cacheVars == <<transformCache, disk, now, calls, last, pushed>>
syncVars == <<records, i, pc, attempt, skuChecked, pending, stats, shopify,
              drafts, processed>>
mapVars == <<mappingFile, aiFieldMappings, aiInitialized, mapCalls, mapGen,
             mapSaved, mapLast>>
auxVars == <<loadLast, runs, fnArg, fnRes>>

-----------------------------------------------------------------------------
(* Bounds *)

MaxCalls == 3        \* transformProductWithAI calls in Spec
RetainCalls == 7     \* transformProductWithAI calls in SpecRetain
MaxRecords == 2      \* length of the batch in SpecSync
MaxRuns == 2         \* ticks of the interval timer in SpecSched
MaxRetryAttempts == 3 \* largest options.maxAttempts in SpecRetry
MaxConcCalls == 3    \* transformProductWithAI calls in SpecShared, SpecLazy
SchedRecords == 1    \* length of the batch of a scheduled run
MaxMapCalls == 3     \* field-mapping resolutions in SpecMapping
MaxLoads == 2        \* initializeTransformCache calls in SpecLoad
MaxLoadCalls == 2    \* transformProductWithAI calls in SpecLoad

-----------------------------------------------------------------------------
(* Strings *)

LowerChar(c) ==
  CASE c = "G" -> "g"
    [] c = "A" -> "a"
    [] c = "Y" -> "y"
    [] c = "F" -> "f"
    [] c = "E" -> "e"
    [] OTHER -> c

toLowerCase(s) == [n \in DOMAIN s |-> LowerChar(s[n])]

RECURSIVE trimStart(_)
trimStart(s) ==
  IF s # <<>> /\ Head(s) = " " THEN trimStart(Tail(s)) ELSE s

RECURSIVE trimEnd(_)
trimEnd(s) ==
  IF s # <<>> /\ s[Len(s)] = " " THEN trimEnd(SubSeq(s, 1, Len(s) - 1)) ELSE s

trim(s) == trimEnd(trimStart(s))

\* JavaScript `a || b` on values that are strings or undefined
Or(a, b) == IF a # <<>> THEN a ELSE b

unknown == <<"u", "n", "k", "n", "o", "w", "n">>

-----------------------------------------------------------------------------
(* Source records *)

Product(mfg, model, cat, sub, vendor, sku) ==
  [Mfg |-> mfg, Model |-> model, Desc |-> <<"d">>, CatDesc |-> cat,
   SubDesc |-> sub, category |-> <<>>, subcategory |-> <<>>,
   vendor |-> vendor, brand |-> <<>>, Sku |-> sku, sku |-> <<>>,
   Ourprice |-> <<"9">>, CompQty |-> <<"2">>, Barcode |-> <<>>]

\* Yamaha acoustic guitars: all of pA .. pA6 have the cache key g|a|y
pA  == Product(<<"Y">>, <<"1">>, <<"G">>, <<"A">>, <<>>, <<"s", "1">>)
pA2 == Product(<<"y">>, <<"2">>, <<"g">>, <<"A">>, <<>>, <<"s", "2">>)
\* same key, but similarity compares without trim: 'G ' differs from 'G'
pAsp == Product(<<"Y">>, <<"3">>, <<"G", " ">>, <<"A">>, <<>>, <<"s", "3">>)
\* same key through the `vendor` fallback; Mfg itself is missing
pAv == Product(<<>>, <<"4">>, <<"G">>, <<"A">>, <<"Y">>, <<"s", "4">>)
pA5 == Product(<<"Y">>, <<"5">>, <<"G">>, <<"A", " ">>, <<>>, <<"s", "5">>)
pA6 == Product(<<"Y", " ">>, <<"6">>, <<"G">>, <<"A">>, <<>>, <<"s", "6">>)
pA7 == Product(<<"Y">>, <<"7">>, <<" ", "G">>, <<"A">>, <<>>, <<"s", "7">>)
\* a Fender electric guitar: same category, other key
pB  == Product(<<"F">>, <<"8">>, <<"G">>, <<"E">>, <<>>, <<"s", "8">>)
\* a record without SKU
pNoSku == Product(<<"F">>, <<"9">>, <<"G">>, <<"E">>, <<>>, <<>>)

Products == {pA, pA2, pAsp, pAv, pB}
Family == {pA, pAsp, pAv, pA5, pA6, pA7}

-----------------------------------------------------------------------------
(* aiFieldMappingService.applyFieldMappings *)

\* directMappings of the field-mapping document: Shopify field -> AIMSii field
directMappings ==
  [vendor |-> "Mfg", vsku |-> "Sku", vprice |-> "Ourprice",
   vqty |-> "CompQty", vbarcode |-> "Barcode"]

fieldMappings == [directMappings |-> directMappings]

\* the Shopify fields the transform reads from the mapped data
TargetFields == {"vendor", "product_type", "vsku", "vprice", "vqty", "vbarcode"}

\* a Shopify field is absent from the result when it has no mapping or the
\* record's field is undefined, null or ''
applyFieldMappings(record, mappings) ==
  [f \in TargetFields |->
      IF f \in DOMAIN mappings.directMappings
      THEN record[mappings.directMappings[f]]
      ELSE <<>>]

\* a mapping document; kind "null": no mapping (null), "generated": the
\* document generateFieldMappings returns, "manual": config.fieldMapping,
\* which has no directMappings property
Mappings(kind, direct, generatedAt) ==
  [kind |-> kind, directMappings |-> direct, generatedAt |-> generatedAt]

noDirect == [k \in {} |-> 0]

nullMappings == Mappings("null", noDirect, 0)

configFieldMapping == Mappings("manual", noDirect, 0)

noMappingFile == [exists |-> FALSE, corrupt |-> FALSE, mappings |-> nullMappings]

\* a file whose content JSON.parse rejects
corruptMappingFile ==
  [exists |-> TRUE, corrupt |-> TRUE, mappings |-> nullMappings]

\* readFile + JSON.parse; null on ENOENT, any other error is thrown
loadFieldMappings(file) ==
  IF ~file.exists THEN [threw |-> FALSE, mappings |-> nullMappings]
  ELSE IF file.corrupt THEN [threw |-> TRUE, mappings |-> nullMappings]
  ELSE [threw |-> FALSE, mappings |-> file.mappings]

\* ioOk: fs.writeFile succeeds
saveFieldMappings(mappings, file, ioOk) ==
  IF ioOk
  THEN [threw |-> FALSE,
        file |-> [exists |-> TRUE, corrupt |-> FALSE, mappings |-> mappings]]
  ELSE [threw |-> TRUE, file |-> file]

-----------------------------------------------------------------------------
(* Shopify product objects *)

\* the barcode of the record is left out
OwnVariant_mut(product, mappedData) ==
  [price |-> Or(product.Ourprice, Or(mappedData.vprice, <<"0">>)),
   sku |-> Or(product.Sku, Or(mappedData.vsku, <<>>)),
   inventory_quantity |-> Or(product.CompQty, Or(mappedData.vqty, <<"0">>)),
   barcode |-> <<>>,
   option1 |-> <<"D">>]

\* the variant both paths build from the candidate's own fields
OwnVariant(product, mappedData) ==
  [price |-> Or(product.Ourprice, Or(mappedData.vprice, <<"0">>)),
   sku |-> Or(product.Sku, Or(mappedData.vsku, <<>>)),
   inventory_quantity |-> Or(product.CompQty, Or(mappedData.vqty, <<"0">>)),
   barcode |-> Or(product.Barcode, <<>>),
   option1 |-> <<"D">>]

genVariant ==
  [price |-> <<"7">>, sku |-> <<"g">>, inventory_quantity |-> <<"1">>,
   barcode |-> <<>>, option1 |-> <<"D">>]

\* a second variant of a generated product
genVariant2 ==
  [price |-> <<"9">>, sku |-> <<"h">>, inventory_quantity |-> <<"2">>,
   barcode |-> <<>>, option1 |-> <<"L">>]

genImage == <<"i">>

\* What JSON.parse returns for a generated text.  envelope: the object has a
\* `product` property.  hasBody: the product has a body_html string.  body_html
\* is a sequence of segments, a placeholder such as {{mfg}} being one symbol.
\* selfRef: `product` is the object itself, which no parsed text is.
Json(envelope, hasBody, published, variants, images) ==
  [envelope |-> envelope, selfRef |-> FALSE, hasBody |-> hasBody,
   title |-> <<"T">>,
   body_html |-> IF hasBody THEN << <<"t">>, <<"{{MFG}}">>, <<"{{model}}">> >>
                 ELSE <<>>,
   vendor |-> <<"V">>, product_type |-> <<"P">>, tags |-> <<"x">>,
   published |-> published, variants |-> variants, images |-> images]

\* everything left to normalise: published, an image, no variant
jsonRaw == Json(TRUE, TRUE, TRUE, <<>>, <<genImage>>)
\* already in normal form
jsonNormal == Json(TRUE, TRUE, FALSE, <<genVariant>>, <<>>)
\* the inner product shape, returned without the `product` envelope
jsonBare == Json(FALSE, TRUE, TRUE, <<genVariant>>, <<>>)
\* a product without body_html
jsonNoBody == Json(TRUE, FALSE, TRUE, <<genVariant>>, <<>>)
\* a product with another description
jsonAlt ==
  [jsonNormal EXCEPT !.body_html = << <<"o">>, <<"{{desc}}">> >>]

\* What a provider request yields: a text ("json": it parses to .json,
\* "badjson": JSON.parse throws), "error" (the request throws or the text is
\* empty) or "none" (no API key configured for that provider).
Text(kind, json) == [kind |-> kind, json |-> json]

providerError == Text("error", jsonNormal)
providerNone == Text("none", jsonNormal)
badJson == Text("badjson", jsonNormal)

\* A shopifyProduct as the transform holds it.  selfRef: `.product` is the
\* object itself (shopifyProduct.product = shopifyProduct), a circular
\* structure.
Shopify(selfRef, hasBody, title, body, vendor, ptype, tags, published, variants, images) ==
  [selfRef |-> selfRef, hasBody |-> hasBody, title |-> title,
   body_html |-> body, vendor |-> vendor, product_type |-> ptype,
   tags |-> tags, published |-> published, variants |-> variants,
   images |-> images]

noOutput ==
  Shopify(FALSE, FALSE, <<>>, <<>>, <<>>, <<>>, <<>>, FALSE, <<>>, <<>>)

-----------------------------------------------------------------------------
(* aiProviderService.generateWithAI: the primary provider, then the fallback *)

generateWithAI(primary, fallback) ==
  IF primary.kind \in {"json", "badjson"}
  THEN [threw |-> FALSE, text |-> primary, providerCalls |-> 1]
  ELSE LET first == IF primary.kind = "none" THEN 0 ELSE 1 IN
       IF fallback.kind = "none"
       THEN [threw |-> TRUE, text |-> providerError, providerCalls |-> first]
       ELSE IF fallback.kind = "error"
       THEN [threw |-> TRUE, text |-> providerError,
             providerCalls |-> first + 1]
       ELSE [threw |-> FALSE, text |-> fallback, providerCalls |-> first + 1]

-----------------------------------------------------------------------------
(* aiFieldMappingService: generateFieldMappings, initializeFieldMappings *)

\* What JSON.parse returns for a generated mapping text.  isObject = FALSE:
\* the text is the JSON `null` or a primitive, so that setting
\* mappings.metadata throws a TypeError.
mapJson == [isObject |-> TRUE, directMappings |-> directMappings]
mapJsonNull == [isObject |-> FALSE, directMappings |-> noDirect]

\* gen: "threw" (generateWithAI threw), "badjson" (JSON.parse threw),
\* "notobject" (TypeError on the parsed value) or "json"
generateFieldMappings(primary, fallback, t) ==
  LET gen == generateWithAI(primary, fallback) IN
  IF gen.threw
  THEN [threw |-> TRUE, mappings |-> nullMappings, gen |-> "threw"]
  ELSE IF gen.text.kind # "json"
  THEN [threw |-> TRUE, mappings |-> nullMappings, gen |-> "badjson"]
  ELSE IF ~gen.text.json.isObject
  THEN [threw |-> TRUE, mappings |-> nullMappings, gen |-> "notobject"]
  ELSE [threw |-> FALSE,
        mappings |-> Mappings("generated", gen.text.json.directMappings, t),
        gen |-> "json"]

\* What a resolution did.  threw: the call threw.  value: the mapping it
\* returned.  gen: what the generation did ("none": not started).  genCalls:
\* calls of generateWithAI.  saved: the mapping was written to the file.
Resolution(threw, value, file, gen, genCalls, saved) ==
  [threw |-> threw, value |-> value, file |-> file, gen |-> gen,
   genCalls |-> genCalls, saved |-> saved]

\* the mapping is generated and saved again although the file holds one
initializeFieldMappings_mut(file, t, primary, fallback, ioOk) ==
  LET generated == generateFieldMappings(primary, fallback, t)
      saved == saveFieldMappings(generated.mappings, file, ioOk)
  IN IF generated.threw
     THEN Resolution(TRUE, nullMappings, file, generated.gen, 1, FALSE)
     ELSE IF saved.threw
     THEN Resolution(TRUE, nullMappings, file, "json", 1, FALSE)
     ELSE Resolution(FALSE, generated.mappings, saved.file, "json", 1, TRUE)

\* load the file's mapping, or generate one and save it
initializeFieldMappings(file, t, primary, fallback, ioOk) ==
  LET loaded == loadFieldMappings(file)
      generated == generateFieldMappings(primary, fallback, t)
      saved == saveFieldMappings(generated.mappings, file, ioOk)
  IN IF loaded.threw
     THEN Resolution(TRUE, nullMappings, file, "none", 0, FALSE)
     ELSE IF loaded.mappings.kind # "null"
     THEN Resolution(FALSE, loaded.mappings, file, "none", 0, FALSE)
     ELSE IF generated.threw
     THEN Resolution(TRUE, nullMappings, file, generated.gen, 1, FALSE)
     ELSE IF saved.threw
     THEN Resolution(TRUE, nullMappings, file, "json", 1, FALSE)
     ELSE Resolution(FALSE, generated.mappings, saved.file, "json", 1, TRUE)

-----------------------------------------------------------------------------
(* aiTransformCacheService *)

SIMILARITY_THRESHOLD == 7   \* 0.7, findMatchingTemplate
HitThreshold == 8           \* 0.8, transformProductWithAI
KeepExamples == 5           \* cacheTransformation keeps the last 5 examples

noTemplates == [k \in {} |-> 0]

Stats(total, hits, misses, createdAt, lastUpdated) ==
  [totalTransformations |-> total, cacheHits |-> hits, cacheMisses |-> misses,
   createdAt |-> createdAt, lastUpdated |-> lastUpdated]

\* `transformCache = null`
nullCache == [loaded |-> FALSE, templates |-> noTemplates,
              stats |-> Stats(0, 0, 0, 0, 0)]

noFile == [exists |-> FALSE, corrupt |-> FALSE, templates |-> noTemplates,
           stats |-> Stats(0, 0, 0, 0, 0)]

\* a file whose content JSON.parse rejects
corruptFile == [exists |-> TRUE, corrupt |-> TRUE, templates |-> noTemplates,
                stats |-> Stats(0, 0, 0, 0, 0)]

\* every read or parse error is answered with a fresh cache
loadTransformationCache_mut(file, t) ==
  IF ~file.exists \/ file.corrupt
  THEN [threw |-> FALSE,
        cache |-> [loaded |-> TRUE, templates |-> noTemplates,
                   stats |-> Stats(0, 0, 0, t, 0)]]
  ELSE [threw |-> FALSE,
        cache |-> [loaded |-> TRUE, templates |-> file.templates,
                   stats |-> file.stats]]

\* readFile + JSON.parse; a fresh cache created at time t on ENOENT; any
\* other error (the content does not parse) is thrown
loadTransformationCache(file, t) ==
  IF ~file.exists
  THEN [threw |-> FALSE,
        cache |-> [loaded |-> TRUE, templates |-> noTemplates,
                   stats |-> Stats(0, 0, 0, t, 0)]]
  ELSE IF file.corrupt
  THEN [threw |-> TRUE, cache |-> nullCache]
  ELSE [threw |-> FALSE,
        cache |-> [loaded |-> TRUE, templates |-> file.templates,
                   stats |-> file.stats]]

\* JSON.stringify throws on a circular structure
Circular(cache) ==
  \E k \in DOMAIN cache.templates :
    \E n \in DOMAIN cache.templates[k].examples :
      cache.templates[k].examples[n].shopifyProduct.selfRef

\* the document is written before stats.lastUpdated is set
saveTransformationCache_mut(cache, file, t, ioOk) ==
  LET c == [cache EXCEPT !.stats.lastUpdated = t] IN
  IF Circular(c) \/ ~ioOk
  THEN [threw |-> TRUE, cache |-> c, disk |-> file]
  ELSE [threw |-> FALSE, cache |-> c,
        disk |-> [exists |-> TRUE, corrupt |-> FALSE,
                  templates |-> cache.templates, stats |-> cache.stats]]

\* stats.lastUpdated is set in memory first, then the document is written;
\* ioOk: fs.writeFile succeeds
saveTransformationCache(cache, file, t, ioOk) ==
  LET c == [cache EXCEPT !.stats.lastUpdated = t] IN
  IF Circular(c) \/ ~ioOk
  THEN [threw |-> TRUE, cache |-> c, disk |-> file]
  ELSE [threw |-> FALSE, cache |-> c,
        disk |-> [exists |-> TRUE, corrupt |-> FALSE,
                  templates |-> c.templates, stats |-> c.stats]]

\* the components are lowercased but not trimmed
generateCacheKey_mut(product) ==
  LET category ==
        toLowerCase(Or(Or(product.CatDesc, product.category), unknown))
      subcategory ==
        toLowerCase(Or(product.SubDesc, product.subcategory))
      brand ==
        toLowerCase(
          Or(Or(Or(product.Mfg, product.vendor), product.brand), unknown))
  IN category \o <<"|">> \o subcategory \o <<"|">> \o brand

generateCacheKey(product) ==
  LET category ==
        trim(toLowerCase(Or(Or(product.CatDesc, product.category), unknown)))
      subcategory ==
        trim(toLowerCase(Or(product.SubDesc, product.subcategory)))
      brand ==
        trim(toLowerCase(
          Or(Or(Or(product.Mfg, product.vendor), product.brand), unknown)))
  IN category \o <<"|">> \o subcategory \o <<"|">> \o brand

\* the fields are compared as they are, upper case differing from lower case
calculateSimilarity_mut(product1, product2) ==
  (IF product1.CatDesc = product2.CatDesc THEN 4 ELSE 0)
  + (IF product1.SubDesc = product2.SubDesc THEN 3 ELSE 0)
  + (IF product1.Mfg = product2.Mfg THEN 3 ELSE 0)

\* product2 is an example's sourceProduct
calculateSimilarity(product1, product2) ==
  (IF toLowerCase(product1.CatDesc) = toLowerCase(product2.CatDesc)
   THEN 4 ELSE 0)
  + (IF toLowerCase(product1.SubDesc) = toLowerCase(product2.SubDesc)
     THEN 3 ELSE 0)
  + (IF toLowerCase(product1.Mfg) = toLowerCase(product2.Mfg)
     THEN 3 ELSE 0)

MathMax(S) == CHOOSE x \in S : \A y \in S : y <= x

Similarities(product, template) ==
  {calculateSimilarity(product, template.examples[n].sourceProduct) :
     n \in DOMAIN template.examples}

\* returns the match (found = FALSE: null) and the cache with its counters
\* as the function leaves them
findMatchingTemplate(product, cache) ==
  LET cacheKey == generateCacheKey(product)
      has == /\ cacheKey \in DOMAIN cache.templates
             /\ Len(cache.templates[cacheKey].examples) > 0
      maxSimilarity ==
        IF has THEN MathMax(Similarities(product, cache.templates[cacheKey]))
        ELSE 0
  IN IF has /\ maxSimilarity >= SIMILARITY_THRESHOLD
     THEN [found |-> TRUE, similarity |-> maxSimilarity, cacheKey |-> cacheKey,
           cache |-> [cache EXCEPT !.stats.cacheHits = @ + 1]]
     ELSE [found |-> FALSE, similarity |-> 0, cacheKey |-> cacheKey,
           cache |-> [cache EXCEPT !.stats.cacheMisses = @ + 1]]

\* String.replace(/{{token}}/gi, value) on a segmented body
ReplaceGI(body, token, value) ==
  [n \in DOMAIN body |->
     IF toLowerCase(body[n]) = <<token>> THEN value ELSE body[n]]

\* [a, b, c].filter(Boolean).join(', ')
RECURSIVE JoinTags(_)
JoinTags(parts) ==
  IF parts = <<>> THEN <<>>
  ELSE IF Head(parts) = <<>> THEN JoinTags(Tail(parts))
  ELSE LET rest == JoinTags(Tail(parts)) IN
       IF rest = <<>> THEN Head(parts)
       ELSE Head(parts) \o <<",", " ">> \o rest

\* the oldest example of the template is the pattern
applyTemplate_mut(product, template, mappedData) ==
  LET latestExample == template.examples[1]
      shopifyTemplate == latestExample.shopifyProduct
      body ==
        ReplaceGI(ReplaceGI(ReplaceGI(ReplaceGI(ReplaceGI(
          shopifyTemplate.body_html,
          "{{mfg}}", product.Mfg),
          "{{model}}", product.Model),
          "{{desc}}", product.Desc),
          "{{category}}", product.CatDesc),
          "{{subcategory}}", product.SubDesc)
  IN IF ~shopifyTemplate.hasBody
     THEN [threw |-> TRUE, result |-> noOutput]
     ELSE [threw |-> FALSE,
           result |->
             Shopify(FALSE, TRUE,
                     trim(product.Mfg \o <<" ">> \o product.Model
                          \o <<" ">> \o product.Desc),
                     body,
                     Or(product.Mfg, mappedData.vendor),
                     Or(product.CatDesc, mappedData.product_type),
                     JoinTags(<<product.CatDesc, product.SubDesc,
                                product.Mfg>>),
                     FALSE,
                     <<OwnVariant(product, mappedData)>>,
                     <<>>)]

\* threw: shopifyTemplate.product.body_html is undefined, .replace throws
applyTemplate(product, template, mappedData) ==
  LET latestExample == template.examples[Len(template.examples)]
      shopifyTemplate == latestExample.shopifyProduct
      body ==
        ReplaceGI(ReplaceGI(ReplaceGI(ReplaceGI(ReplaceGI(
          shopifyTemplate.body_html,
          "{{mfg}}", product.Mfg),
          "{{model}}", product.Model),
          "{{desc}}", product.Desc),
          "{{category}}", product.CatDesc),
          "{{subcategory}}", product.SubDesc)
  IN IF ~shopifyTemplate.hasBody
     THEN [threw |-> TRUE, result |-> noOutput]
     ELSE [threw |-> FALSE,
           result |->
             Shopify(FALSE, TRUE,
                     trim(product.Mfg \o <<" ">> \o product.Model
                          \o <<" ">> \o product.Desc),
                     body,
                     Or(product.Mfg, mappedData.vendor),
                     Or(product.CatDesc, mappedData.product_type),
                     JoinTags(<<product.CatDesc, product.SubDesc,
                                product.Mfg>>),
                     FALSE,
                     <<OwnVariant(product, mappedData)>>,
                     <<>>)]

\* the example keeps the record's category and brand but not its model
Example_mut(product, shopifyProduct, t) ==
  [sourceProduct |-> [Mfg |-> product.Mfg, Model |-> <<>>,
                      Desc |-> product.Desc, CatDesc |-> product.CatDesc,
                      SubDesc |-> product.SubDesc],
   shopifyProduct |-> shopifyProduct,
   cachedAt |-> t]

Example(product, shopifyProduct, t) ==
  [sourceProduct |-> [Mfg |-> product.Mfg, Model |-> product.Model,
                      Desc |-> product.Desc, CatDesc |-> product.CatDesc,
                      SubDesc |-> product.SubDesc],
   shopifyProduct |-> shopifyProduct,
   cachedAt |-> t]

\* slice(0, n) in place of slice(-n): the oldest examples are kept
SliceLast_mut(s, n) ==
  IF Len(s) > n THEN SubSeq(s, 1, n) ELSE s

\* Array.prototype.slice(-n)
SliceLast(s, n) ==
  IF Len(s) > n THEN SubSeq(s, Len(s) - n + 1, Len(s)) ELSE s

\* a failed save undoes the push and the counter
cacheTransformation_mut(product, shopifyProduct, cache, file, t, ioOk) ==
  LET cacheKey == generateCacheKey(product)
      template ==
        IF cacheKey \in DOMAIN cache.templates
        THEN cache.templates[cacheKey]
        ELSE [category |-> Or(product.CatDesc, unknown),
              subcategory |-> product.SubDesc,
              brand |-> Or(product.Mfg, unknown),
              examples |-> <<>>, createdAt |-> t, lastUsed |-> 0]
      appended == Append(template.examples, Example(product, shopifyProduct, t))
      kept == IF Len(appended) > KeepExamples
              THEN SliceLast(appended, KeepExamples) ELSE appended
      c == [loaded |-> cache.loaded,
            templates |->
              (cacheKey :> [template EXCEPT !.examples = kept, !.lastUsed = t])
              @@ cache.templates,
            stats |-> [cache.stats EXCEPT !.totalTransformations = @ + 1]]
      saved == saveTransformationCache(c, file, t, ioOk)
  IN IF saved.threw THEN [saved EXCEPT !.cache = cache] ELSE saved

cacheTransformation(product, shopifyProduct, cache, file, t, ioOk) ==
  LET cacheKey == generateCacheKey(product)
      template ==
        IF cacheKey \in DOMAIN cache.templates
        THEN cache.templates[cacheKey]
        ELSE [category |-> Or(product.CatDesc, unknown),
              subcategory |-> product.SubDesc,
              brand |-> Or(product.Mfg, unknown),
              examples |-> <<>>, createdAt |-> t, lastUsed |-> 0]
      appended == Append(template.examples, Example(product, shopifyProduct, t))
      kept == IF Len(appended) > KeepExamples
              THEN SliceLast(appended, KeepExamples) ELSE appended
      c == [loaded |-> cache.loaded,
            templates |->
              (cacheKey :> [template EXCEPT !.examples = kept, !.lastUsed = t])
              @@ cache.templates,
            stats |-> [cache.stats EXCEPT !.totalTransformations = @ + 1]]
  IN saveTransformationCache(c, file, t, ioOk)

-----------------------------------------------------------------------------
(* aiEnhancedTransformService *)

\* threw: the load threw and transformCache is still null
initializeTransformCache(cache, file, t) ==
  IF ~cache.loaded THEN loadTransformationCache(file, t)
  ELSE [threw |-> FALSE, cache |-> cache]

\* A shopifyProduct handed to lines 102-122 again: it has a `product`
\* property, itself when selfRef.
AsParsed(shopifyProduct) ==
  [envelope |-> TRUE, selfRef |-> shopifyProduct.selfRef,
   hasBody |-> shopifyProduct.hasBody, title |-> shopifyProduct.title,
   body_html |-> shopifyProduct.body_html, vendor |-> shopifyProduct.vendor,
   product_type |-> shopifyProduct.product_type, tags |-> shopifyProduct.tags,
   published |-> shopifyProduct.published, variants |-> shopifyProduct.variants,
   images |-> shopifyProduct.images]

\* `published` left as the generator returned it
normalize_mut(json, product, mappedData) ==
  Shopify(json.selfRef \/ ~json.envelope, json.hasBody, json.title,
          json.body_html,
          json.vendor, json.product_type, json.tags,
          json.published,
          IF Len(json.variants) = 0
          THEN <<OwnVariant(product, mappedData)>> ELSE json.variants,
          <<>>)

\* lines 102-122: envelope, draft mode, no images, at least one variant
normalize(json, product, mappedData) ==
  Shopify(json.selfRef \/ ~json.envelope, json.hasBody, json.title,
          json.body_html,
          json.vendor, json.product_type, json.tags,
          FALSE,
          IF Len(json.variants) = 0
          THEN <<OwnVariant(product, mappedData)>> ELSE json.variants,
          <<>>)

Outcome(cache, file, returned, output, path, gen, genCalls, providerCalls, ex) ==
  [cache |-> cache, disk |-> file, returned |-> returned, output |-> output,
   path |-> path, gen |-> gen, genCalls |-> genCalls,
   providerCalls |-> providerCalls, pushed |-> ex]

\* the applied template is written back as a new example
useCachedTemplate_mut(product, templateMatch, mappedData, cache, file, t) ==
  LET applied == applyTemplate(product,
                   cache.templates[templateMatch.cacheKey], mappedData)
      saved == cacheTransformation(product, applied.result, cache, file, t,
                                   TRUE)
  IN IF applied.threw
     THEN Outcome(cache, file, FALSE, applied.result, "template", "none",
                  0, 0, <<>>)
     ELSE Outcome(saved.cache, saved.disk, TRUE, applied.result, "template",
                  "none", 0, 0, <<>>)

\* lines 54-58: the match is good enough, no AI call
useCachedTemplate(product, templateMatch, mappedData, cache, file, t) ==
  LET applied == applyTemplate(product,
                   cache.templates[templateMatch.cacheKey], mappedData)
  IN Outcome(cache, file, ~applied.threw, applied.result, "template",
             "none", 0, 0, <<>>)

\* a text that does not parse is replaced by a default product
generateAndCache_mut(product, mappedData, cache, file, t, primary, fallback, ioOk) ==
  LET gen == generateWithAI(primary, fallback) IN
  IF gen.threw
  THEN Outcome(cache, file, FALSE, noOutput, "generate", "threw", 1,
               gen.providerCalls, <<>>)
  ELSE
    LET shopifyProduct == normalize(gen.text.json, product, mappedData)
        saved == cacheTransformation(product, shopifyProduct, cache, file,
                                     t, ioOk)
    IN Outcome(saved.cache, saved.disk, ~saved.threw,
               IF saved.threw THEN noOutput ELSE shopifyProduct,
               "generate",
               IF gen.text.kind = "json" THEN "json" ELSE "badjson",
               1, gen.providerCalls,
               <<Example(product, shopifyProduct, t)>>)

\* lines 95-129: generate, parse, normalise, cache, return
generateAndCache(product, mappedData, cache, file, t, primary, fallback, ioOk) ==
  LET gen == generateWithAI(primary, fallback) IN
  IF gen.threw
  THEN Outcome(cache, file, FALSE, noOutput, "generate", "threw", 1,
               gen.providerCalls, <<>>)
  ELSE IF gen.text.kind # "json"
  THEN Outcome(cache, file, FALSE, noOutput, "generate", "badjson", 1,
               gen.providerCalls, <<>>)
  ELSE
    LET shopifyProduct == normalize(gen.text.json, product, mappedData)
        saved == cacheTransformation(product, shopifyProduct, cache, file,
                                     t, ioOk)
    IN Outcome(saved.cache, saved.disk, ~saved.threw,
               IF saved.threw THEN noOutput ELSE shopifyProduct,
               "generate", "json", 1, gen.providerCalls,
               <<Example(product, shopifyProduct, t)>>)

\* One call, from the lazy initialisation to the return or the throw.
\* returned = FALSE: the call threw.  path: "load" (the lazy load threw),
\* "template" (applyTemplate was entered) or "generate".  gen: what
\* generateWithAI did.  pushed: the example cacheTransformation pushed.
transformProductWithAI(cache0, file, t, product, mappings, primary, fallback, ioOk) ==
  LET init == initializeTransformCache(cache0, file, t)
      cache1 == init.cache
      mappedData == applyFieldMappings(product, mappings)
      templateMatch == findMatchingTemplate(product, cache1)
  IN
  IF init.threw
  THEN Outcome(cache0, file, FALSE, noOutput, "load", "none", 0, 0, <<>>)
  ELSE IF templateMatch.found /\ templateMatch.similarity >= HitThreshold
  THEN useCachedTemplate(product, templateMatch, mappedData,
                         templateMatch.cache, file, t)
  ELSE generateAndCache(product, mappedData, templateMatch.cache, file, t,
                        primary, fallback, ioOk)

\* getCacheStats / getTransformCacheStats counters
Total == transformCache.stats.totalTransformations
Hits == transformCache.stats.cacheHits
Misses == transformCache.stats.cacheMisses

\* a ratio as a percentage with one decimal, in tenths of a percent
\* ((a / b * 100).toFixed(1))
PercentTenths(a, b) == (2000 * a + b) \div (2 * b)

\* getCacheStats: hitRate is 0 while totalTransformations is 0, and
\* cacheHits / totalTransformations * 100 to one decimal after that
getCacheStats(cache) ==
  [templates |-> Cardinality(DOMAIN cache.templates),
   totalTransformations |-> cache.stats.totalTransformations,
   cacheHits |-> cache.stats.cacheHits,
   cacheMisses |-> cache.stats.cacheMisses,
   hitRate |-> IF cache.stats.totalTransformations > 0
               THEN PercentTenths(cache.stats.cacheHits,
                                  cache.stats.totalTransformations)
               ELSE 0]

-----------------------------------------------------------------------------
(* Inputs of a call *)

Input(primary, fallback, ioOk) ==
  [primary |-> primary, fallback |-> fallback, ioOk |-> ioOk]

\* what the generator and the file system do during one call; the fallback
\* provider is only asked when the primary fails
Inputs ==
  {Input(Text("json", jsonRaw), providerNone, TRUE),
   Input(Text("json", jsonRaw), providerNone, FALSE),
   Input(Text("json", jsonBare), providerNone, TRUE),
   Input(Text("json", jsonNoBody), providerNone, TRUE),
   Input(badJson, providerNone, TRUE),
   Input(providerError, providerNone, TRUE),
   Input(providerError, providerError, TRUE),
   Input(providerError, Text("json", jsonNormal), TRUE)}

noCall ==
  [product |-> pA, returned |-> FALSE, output |-> noOutput, path |-> "none",
   gen |-> "none", genCalls |-> 0, providerCalls |-> 0]

Observed(product, out) ==
  [product |-> product, returned |-> out.returned, output |-> out.output,
   path |-> out.path, gen |-> out.gen, genCalls |-> out.genCalls,
   providerCalls |-> out.providerCalls]

PushHistory(hist, product, out) ==
  IF out.pushed = <<>> THEN hist
  ELSE LET k == generateCacheKey(product) IN
       (k :> Append(IF k \in DOMAIN hist THEN hist[k] ELSE <<>>,
                    out.pushed[1])) @@ hist

\* the sync loop at rest
SyncIdle ==
  /\ dryRun = FALSE
  /\ records = <<>>
  /\ i = 0
  /\ pc = "idle"
  /\ attempt = 0
  /\ skuChecked = FALSE
  /\ pending = noOutput
  /\ stats = [total |-> 0, created |-> 0, skipped |-> 0, failed |-> 0,
              alreadyExists |-> 0]
  /\ shopify = {}
  /\ drafts = <<>>
  /\ processed = <<>>

noResolutionObserved ==
  [fn |-> "none", resolved |-> FALSE, threw |-> FALSE, value |-> nullMappings,
   gen |-> "none", genCalls |-> 0, saved |-> FALSE, substituted |-> FALSE]

noLoad == [n |-> 0, threw |-> FALSE, cache |-> nullCache]

\* no load observed, no scheduled run, no function applied on its own
AuxIdle ==
  /\ loadLast = noLoad
  /\ runs = <<>>
  /\ fnArg = <<>>
  /\ fnRes = <<>>

\* nothing resolved yet, no mapping file
MapIdle ==
  /\ mappingFile = noMappingFile
  /\ aiFieldMappings = nullMappings
  /\ aiInitialized = FALSE
  /\ mapCalls = 0
  /\ mapGen = 0
  /\ mapSaved = 0
  /\ mapLast = noResolutionObserved

CacheInit ==
  /\ transformCache = nullCache
  /\ disk = noFile
  /\ now = 0
  /\ calls = 0
  /\ last = noCall
  /\ pushed = noTemplates

\* a caller such as scripts/testAILearning.js: one call after the other
Init ==
  /\ CacheInit
  /\ maxExamplesPerTemplate \in {2, 5}
  /\ SyncIdle
  /\ MapIdle
  /\ AuxIdle

Call(product, mappings, primary, fallback, ioOk) ==
  LET out == transformProductWithAI(transformCache, disk, now + 1, product,
                                    mappings, primary, fallback, ioOk)
  IN /\ transformCache' = out.cache
     /\ disk' = out.disk
     /\ now' = now + 1
     /\ calls' = calls + 1
     /\ last' = Observed(product, out)
     /\ pushed' = PushHistory(pushed, product, out)

TransformCall ==
  /\ calls < MaxCalls
  /\ \E product \in Products, inp \in Inputs :
       Call(product, fieldMappings, inp.primary, inp.fallback, inp.ioOk)
  /\ UNCHANGED <<maxExamplesPerTemplate, dryRun, syncVars, mapVars>>
  /\ UNCHANGED auxVars

Next == TransformCall

Spec == Init /\ [][Next]_vars

\* one key, well-formed generations, working file system: the write-backs
\* under the key g|a|y
RetainInit ==
  /\ CacheInit
  /\ maxExamplesPerTemplate = 5
  /\ SyncIdle
  /\ MapIdle
  /\ AuxIdle

RetainCall ==
  /\ calls < RetainCalls
  /\ \E product \in Family :
       Call(product, fieldMappings, Text("json", jsonRaw), providerNone, TRUE)
  /\ UNCHANGED <<maxExamplesPerTemplate, dryRun, syncVars, mapVars>>
  /\ UNCHANGED auxVars

SpecRetain == RetainInit /\ [][RetainCall]_vars

-----------------------------------------------------------------------------
(* generateCacheKey applied on its own to two records *)

\* a record with every field the key reads
KeyProduct(cat, category, sub, mfg, vendor, brand, model) ==
  [Product(mfg, model, cat, sub, vendor, <<"s", "1">>)
     EXCEPT !.category = category, !.brand = brand]

KeyProducts ==
  {KeyProduct(cat, category, sub, mfg, vendor, brand, model) :
     cat \in {<<>>, <<"G">>, <<"g", " ">>, <<" ">>},
     category \in {<<>>, <<" ", "G">>},
     sub \in {<<>>, <<"A">>, <<" ", "a">>},
     mfg \in {<<>>, <<"Y">>},
     vendor \in {<<>>, <<"y", " ">>},
     brand \in {<<>>, <<"F">>},
     model \in {<<"1">>, <<"2">>}}

KeyInit ==
  /\ CacheInit
  /\ maxExamplesPerTemplate = 5
  /\ SyncIdle
  /\ MapIdle
  /\ loadLast = noLoad
  /\ runs = <<>>
  /\ fnArg \in KeyProducts \X KeyProducts
  /\ fnRes = <<>>

ApplyKey ==
  /\ fnRes = <<>>
  /\ fnRes' = <<generateCacheKey(fnArg[1]), generateCacheKey(fnArg[2])>>
  /\ UNCHANGED <<cacheVars, maxExamplesPerTemplate, dryRun, syncVars, mapVars,
                 loadLast, runs, fnArg>>

SpecKey == KeyInit /\ [][ApplyKey]_vars

-----------------------------------------------------------------------------
(* utils/retry.js: retryWithBackoff on its own.  fnArg holds the options,
   fnRes the local state of the call: the loop counter, the delay, the waits
   slept so far, the outcome of each invocation of fn (the number of the
   attempt stands for its result or its error). *)

Min(a, b) == IF a <= b THEN a ELSE b

RetryOptions ==
  [maxAttempts : 1..MaxRetryAttempts, initialDelay : {1, 2, 5},
   maxDelay : {4, 8}, backoffMultiplier : {1, 2}]

\* the call has evaluated its options: attempt = 1, delay = initialDelay
RetryInit ==
  /\ CacheInit
  /\ maxExamplesPerTemplate = 5
  /\ SyncIdle
  /\ MapIdle
  /\ loadLast = noLoad
  /\ runs = <<>>
  /\ fnArg \in RetryOptions
  /\ fnRes = [pc |-> "loop", attempt |-> 1, delay |-> fnArg.initialDelay,
              waits |-> <<>>, outcomes |-> <<>>, result |-> 0,
              lastError |-> 0]

\* one iteration of the for loop: fn is awaited; on an error before the
\* last attempt the delay is slept and then multiplied
RetryAttempt ==
  /\ fnRes.pc = "loop"
  /\ \E ok \in BOOLEAN :
       fnRes' =
         IF fnRes.attempt > fnArg.maxAttempts
         THEN [fnRes EXCEPT !.pc = "thrown"]
         ELSE IF ok
         THEN [fnRes EXCEPT !.pc = "returned",
                            !.outcomes = Append(@, "ok"),
                            !.result = fnRes.attempt]
         ELSE IF fnRes.attempt < fnArg.maxAttempts
         THEN [fnRes EXCEPT !.attempt = @ + 1,
                            !.outcomes = Append(@, "error"),
                            !.lastError = fnRes.attempt,
                            !.waits = Append(@, fnRes.delay),
                            !.delay = Min(@ * fnArg.backoffMultiplier,
                                          fnArg.maxDelay)]
         ELSE [fnRes EXCEPT !.attempt = @ + 1,
                            !.outcomes = Append(@, "error"),
                            !.lastError = fnRes.attempt]
  /\ UNCHANGED <<cacheVars, maxExamplesPerTemplate, dryRun, syncVars, mapVars,
                 loadLast, runs, fnArg>>

SpecRetry == RetryInit /\ [][RetryAttempt]_vars

-----------------------------------------------------------------------------
(* calculateSimilarity applied on its own to a record and the sourceProduct
   of an example *)

SimRecords ==
  {Product(mfg, <<"1">>, cat, sub, <<>>, <<"s", "1">>) :
     cat \in {<<>>, <<"G">>, <<"g">>, <<"G", " ">>},
     sub \in {<<>>, <<"A">>, <<"a">>},
     mfg \in {<<>>, <<"Y">>, <<"y">>, <<"F">>}}

SimilarityInit ==
  /\ CacheInit
  /\ maxExamplesPerTemplate = 5
  /\ SyncIdle
  /\ MapIdle
  /\ loadLast = noLoad
  /\ runs = <<>>
  /\ fnArg \in SimRecords \X SimRecords
  /\ fnRes = <<>>

ApplySimilarity ==
  /\ fnRes = <<>>
  /\ fnRes' = <<calculateSimilarity(fnArg[1],
                  Example(fnArg[2], noOutput, 0).sourceProduct)>>
  /\ UNCHANGED <<cacheVars, maxExamplesPerTemplate, dryRun, syncVars, mapVars,
                 loadLast, runs, fnArg>>

SpecSimilarity == SimilarityInit /\ [][ApplySimilarity]_vars

-----------------------------------------------------------------------------
(* applyTemplate applied on its own, on a hit: a candidate record and the
   template of its key, as earlier misses under that key have left it *)

\* a record without price, with a barcode
pPlain == [pA EXCEPT !.Ourprice = <<>>, !.Barcode = <<"b">>]

ApplyCandidates == {pA, pA2, pAv, pPlain}

ApplySources == {pA, pAsp, pAv}

ApplyGenerated == {jsonRaw, jsonAlt, jsonNoBody}

\* the example a miss for record src leaves when the generator answers json
StoredExample(src, json, t) ==
  Example(src,
          normalize(json, src, applyFieldMappings(src, fieldMappings)), t)

\* one example, or two from sources that miss each other
ApplyExamples ==
  {<<StoredExample(src, json, 1)>> :
     src \in ApplySources, json \in ApplyGenerated}
  \cup
  {<<StoredExample(sj[1], sj[2], 1), StoredExample(sj[3], sj[4], 2)>> :
     sj \in {x \in ApplySources \X ApplyGenerated
                      \X ApplySources \X ApplyGenerated :
               calculateSimilarity(x[3],
                 StoredExample(x[1], x[2], 1).sourceProduct) < HitThreshold}}

\* the template under the key g|a|y holding the examples
ApplyTemplateOf(examples) ==
  [category |-> <<"G">>, subcategory |-> <<"A">>, brand |-> <<"Y">>,
   examples |-> examples, createdAt |-> 1, lastUsed |-> Len(examples)]

ApplyCacheOf(examples) ==
  [loaded |-> TRUE,
   templates |-> (generateCacheKey(pA) :> ApplyTemplateOf(examples)),
   stats |-> Stats(Len(examples), 0, Len(examples), 1, Len(examples))]

ApplyInit ==
  /\ CacheInit
  /\ maxExamplesPerTemplate = 5
  /\ SyncIdle
  /\ MapIdle
  /\ loadLast = noLoad
  /\ runs = <<>>
  /\ fnArg \in [product : ApplyCandidates, examples : ApplyExamples]
  /\ fnRes = <<>>

\* lines 52-58 of transformProductWithAI: the lookup finds a match of at
\* least 0.8 and applyTemplate is called with it
ApplyOnHit ==
  /\ fnRes = <<>>
  /\ LET templateMatch ==
           findMatchingTemplate(fnArg.product, ApplyCacheOf(fnArg.examples))
     IN /\ templateMatch.found
        /\ templateMatch.similarity >= HitThreshold
        /\ fnRes' = <<applyTemplate(fnArg.product,
                        templateMatch.cache.templates[templateMatch.cacheKey],
                        applyFieldMappings(fnArg.product, fieldMappings))>>
  /\ UNCHANGED <<cacheVars, maxExamplesPerTemplate, dryRun, syncVars, mapVars,
                 loadLast, runs, fnArg>>

SpecApply == ApplyInit /\ [][ApplyOnHit]_vars

-----------------------------------------------------------------------------
(* The miss-path normalisation (aiEnhancedTransformService.js 102-122)
   applied on its own, once to a parsed product and then to its own result *)

ParsedProducts ==
  {Json(envelope, hasBody, published, variants, images) :
     envelope \in BOOLEAN, hasBody \in BOOLEAN, published \in BOOLEAN,
     variants \in {<<>>, <<genVariant>>, <<genVariant, genVariant2>>},
     images \in {<<>>, <<genImage>>}}

NormalizeInit ==
  /\ CacheInit
  /\ maxExamplesPerTemplate = 5
  /\ SyncIdle
  /\ MapIdle
  /\ loadLast = noLoad
  /\ runs = <<>>
  /\ fnArg \in [json : ParsedProducts, product : {pA, pB}]
  /\ fnRes = <<>>

NormalizeParsed ==
  /\ fnRes = <<>>
  /\ fnRes' = <<normalize(fnArg.json, fnArg.product,
                          applyFieldMappings(fnArg.product, fieldMappings))>>
  /\ UNCHANGED <<cacheVars, maxExamplesPerTemplate, dryRun, syncVars, mapVars,
                 loadLast, runs, fnArg>>

NormalizeAgain ==
  /\ Len(fnRes) = 1
  /\ fnRes' = Append(fnRes,
                 normalize(AsParsed(fnRes[1]), fnArg.product,
                           applyFieldMappings(fnArg.product, fieldMappings)))
  /\ UNCHANGED <<cacheVars, maxExamplesPerTemplate, dryRun, syncVars, mapVars,
                 loadLast, runs, fnArg>>

NormalizeNext == NormalizeParsed \/ NormalizeAgain

SpecNormalize == NormalizeInit /\ [][NormalizeNext]_vars

-----------------------------------------------------------------------------
(* Loading the cache: initializeTransformCache called on its own, as in
   scripts/testAILearning.js, between transforms and restarts *)

LoadInit ==
  /\ transformCache = nullCache
  /\ disk \in {noFile, corruptFile}
  /\ now = 0
  /\ calls = 0
  /\ last = noCall
  /\ pushed = noTemplates
  /\ maxExamplesPerTemplate = 5
  /\ SyncIdle
  /\ MapIdle
  /\ AuxIdle

\* await initializeTransformCache()
LoadCache ==
  /\ loadLast.n < MaxLoads
  /\ LET init == initializeTransformCache(transformCache, disk, now + 1) IN
       /\ transformCache' = IF init.threw THEN transformCache ELSE init.cache
       /\ loadLast' = [n |-> loadLast.n + 1, threw |-> init.threw,
                       cache |-> init.cache]
  /\ now' = now + 1
  /\ UNCHANGED <<disk, calls, last, pushed, maxExamplesPerTemplate, dryRun,
                 syncVars, mapVars, runs, fnArg, fnRes>>

LoadInputs ==
  {Input(Text("json", jsonRaw), providerNone, TRUE),
   Input(Text("json", jsonRaw), providerNone, FALSE)}

LoadTransform ==
  /\ calls < MaxLoadCalls
  /\ \E product \in {pA, pB}, inp \in LoadInputs :
       Call(product, fieldMappings, inp.primary, inp.fallback, inp.ioOk)
  /\ UNCHANGED <<maxExamplesPerTemplate, dryRun, syncVars, mapVars, auxVars>>

\* the process exits and is started again: module state is lost
Restart ==
  /\ aiInitialized \/ transformCache.loaded
  /\ aiFieldMappings' = nullMappings
  /\ aiInitialized' = FALSE
  /\ transformCache' = nullCache
  /\ UNCHANGED <<disk, now, calls, last, pushed, maxExamplesPerTemplate,
                 dryRun, syncVars, mappingFile, mapCalls, mapGen, mapSaved,
                 mapLast>>
  /\ UNCHANGED auxVars

LoadNext == LoadCache \/ LoadTransform \/ Restart

SpecLoad == LoadInit /\ [][LoadNext]_vars

-----------------------------------------------------------------------------
(* index-ai-enhanced.js: initializeAILearningSystem *)

\* What initializeAILearningSystem did.  resolved: initializeFieldMappings was
\* called and resolution is what it did.  substituted: the catch block put
\* config.fieldMapping in place of the mapping.
Learning(mappings, initialized, file, cache, resolved, resolution, substituted) ==
  [aiFieldMappings |-> mappings, aiInitialized |-> initialized, file |-> file,
   cache |-> cache, resolved |-> resolved, resolution |-> resolution,
   substituted |-> substituted]

noResolution == Resolution(FALSE, nullMappings, noMappingFile, "none", 0, FALSE)

\* lines 38-87: load or generate the mapping, load the cache; every error
\* ends in the catch block, which falls back to config.fieldMapping
initializeAILearningSystem(mappings, initialized, file, cache, cacheFile, t, enableFieldMapping, enableTransformCache, primary, fallback, ioOk) ==
  LET first == loadFieldMappings(file)
      resolve == ~first.threw /\ first.mappings.kind = "null"
                   /\ enableFieldMapping
      res == initializeFieldMappings(file, t, primary, fallback, ioOk)
      file1 == IF resolve THEN res.file ELSE file
      value == IF resolve THEN res.value
               ELSE IF first.mappings.kind # "null" THEN first.mappings
               ELSE configFieldMapping
      init == initializeTransformCache(cache, cacheFile, t)
  IN IF initialized
     THEN Learning(mappings, TRUE, file, cache, FALSE, noResolution, FALSE)
     ELSE IF first.threw
     THEN Learning(configFieldMapping, TRUE, file, cache, FALSE, noResolution,
                   TRUE)
     ELSE IF resolve /\ res.threw
     THEN Learning(configFieldMapping, TRUE, file1, cache, TRUE, res, TRUE)
     ELSE IF enableTransformCache /\ init.threw
     THEN Learning(configFieldMapping, TRUE, file1, cache, resolve,
                   IF resolve THEN res ELSE noResolution, TRUE)
     ELSE Learning(value, TRUE, file1,
                   IF enableTransformCache THEN init.cache ELSE cache,
                   resolve, IF resolve THEN res ELSE noResolution, FALSE)

-----------------------------------------------------------------------------
(* Field-mapping resolution: the callers of aiFieldMappingService *)

\* what the generator and the file system do during one resolution
MapInputs ==
  {Input(Text("json", mapJson), providerNone, TRUE),
   Input(Text("json", mapJson), providerNone, FALSE),
   Input(Text("json", mapJsonNull), providerNone, TRUE),
   Input(badJson, providerNone, TRUE),
   Input(providerError, providerNone, TRUE),
   Input(providerError, Text("json", mapJson), TRUE)}

MapObserved(fn, resolved, res, substituted) ==
  [fn |-> fn, resolved |-> resolved, threw |-> res.threw, value |-> res.value,
   gen |-> res.gen, genCalls |-> res.genCalls, saved |-> res.saved,
   substituted |-> substituted]

\* the counters of a resolution
Resolved(res) ==
  /\ mapCalls' = mapCalls + 1
  /\ mapGen' = mapGen + res.genCalls
  /\ mapSaved' = mapSaved + (IF res.saved THEN 1 ELSE 0)

\* the process is started with or without files that do not parse
MappingInit ==
  /\ transformCache = nullCache
  /\ disk \in {noFile, corruptFile}
  /\ now = 0
  /\ calls = 0
  /\ last = noCall
  /\ pushed = noTemplates
  /\ maxExamplesPerTemplate = 5
  /\ SyncIdle
  /\ mappingFile \in {noMappingFile, corruptMappingFile}
  /\ aiFieldMappings = nullMappings
  /\ aiInitialized = FALSE
  /\ mapCalls = 0
  /\ mapGen = 0
  /\ mapSaved = 0
  /\ mapLast = noResolutionObserved
  /\ AuxIdle

\* a call of initializeFieldMappings, scripts/testAILearning.js line 48
ResolveCall ==
  /\ mapCalls < MaxMapCalls
  /\ \E inp \in MapInputs :
       LET res == initializeFieldMappings(mappingFile, now + 1, inp.primary,
                                          inp.fallback, inp.ioOk)
       IN /\ mappingFile' = res.file
          /\ now' = now + 1
          /\ Resolved(res)
          /\ mapLast' = MapObserved("initializeFieldMappings", TRUE, res, FALSE)
  /\ UNCHANGED <<transformCache, disk, calls, last, pushed,
                 maxExamplesPerTemplate, dryRun, syncVars, aiFieldMappings,
                 aiInitialized>>
  /\ UNCHANGED auxVars

\* what a call of initializeAILearningSystem leaves behind
Learned(out) ==
  /\ aiFieldMappings' = out.aiFieldMappings
  /\ aiInitialized' = out.aiInitialized
  /\ mappingFile' = out.file
  /\ transformCache' = out.cache
  /\ Resolved(out.resolution)
  /\ mapLast' = MapObserved("initializeAILearningSystem", out.resolved,
                            out.resolution, out.substituted)

\* a call of initializeAILearningSystem, index-ai-enhanced.js line 212
LearningInit ==
  /\ mapCalls < MaxMapCalls
  /\ \E inp \in MapInputs, enableFieldMapping, enableTransformCache \in BOOLEAN :
       Learned(initializeAILearningSystem(aiFieldMappings, aiInitialized,
                 mappingFile, transformCache, disk, now + 1,
                 enableFieldMapping, enableTransformCache, inp.primary,
                 inp.fallback, inp.ioOk))
  /\ now' = now + 1
  /\ UNCHANGED <<disk, calls, last, pushed, maxExamplesPerTemplate, dryRun,
                 syncVars>>
  /\ UNCHANGED auxVars

\* the operator deletes ai-field-mappings.json
RemoveMappingFile ==
  /\ mappingFile.exists
  /\ mappingFile' = noMappingFile
  /\ mapGen' = 0
  /\ mapSaved' = 0
  /\ UNCHANGED <<cacheVars, maxExamplesPerTemplate, dryRun, syncVars,
                 aiFieldMappings, aiInitialized, mapCalls, mapLast>>
  /\ UNCHANGED auxVars

MappingNext == ResolveCall \/ LearningInit \/ RemoveMappingFile \/ Restart

SpecMapping == MappingInit /\ [][MappingNext]_vars

-----------------------------------------------------------------------------
(* shopifyService and the AI-enhanced sync, index-ai-enhanced.js *)

maxAttempts == 3   \* config.retry.maxAttempts

\* What the two lookup requests do.  graphql: "ok" or "fail" (HTTP status,
\* GraphQL errors, network).  rest: "ok", "partial" (the product is not among
\* the 250 products of the first page) or "fail".
Lookup(graphql, rest) == [graphql |-> graphql, rest |-> rest]

LookupOutcomes ==
  {Lookup("ok", "ok"), Lookup("fail", "ok"), Lookup("fail", "partial"),
   Lookup("fail", "fail")}

\* REST check: a failed request answers exists: false
checkProductBySku(sku, store, lookup) ==
  IF lookup.rest = "ok"
  THEN \E s \in store : toLowerCase(s) = toLowerCase(sku)
  ELSE FALSE

\* GraphQL check, REST check as fallback
checkProductBySkuGraphQL(sku, store, lookup) ==
  IF lookup.graphql = "ok"
  THEN sku \in store
  ELSE checkProductBySku(sku, store, lookup)

Result(success, reason) == [success |-> success, reason |-> reason]

\* lines 250-258 of syncProducts
tally(st, result) ==
  IF result.success THEN [st EXCEPT !.created = @ + 1]
  ELSE IF result.reason = "already_exists"
  THEN [st EXCEPT !.alreadyExists = @ + 1]
  ELSE IF result.reason = "missing_sku" THEN [st EXCEPT !.skipped = @ + 1]
  ELSE [st EXCEPT !.failed = @ + 1]

\* a processing error ends the loop
afterRecord_mut(result, idx, len) ==
  IF result.reason = "processing_error" THEN "done"
  ELSE IF idx < len THEN "check" ELSE "done"

\* the for loop of syncProducts after record number idx (1-based) of len
afterRecord(result, idx, len) == IF idx < len THEN "check" ELSE "done"

\* processInventoryRecord returns result for records[i + 1]
Finish(result) ==
  /\ stats' = tally(stats, result)
  /\ processed' = [processed EXCEPT ![i + 1] = @ + 1]
  /\ i' = i + 1
  /\ pc' = afterRecord(result, i + 1, Len(records))
  /\ attempt' = 0
  /\ skuChecked' = FALSE
  /\ pending' = noOutput

\* lines 140-143: envelope and draft mode, again
forceDraft(shopifyProduct) == [shopifyProduct EXCEPT !.published = FALSE]

SkuOf(record) == Or(record.sku, record.Sku)

SyncProducts == {pA, pA2, pB, pNoSku}

Batches == UNION {[1..n -> SyncProducts] : n \in 0..MaxRecords}

SyncInputs ==
  {Input(Text("json", jsonRaw), providerNone, TRUE),
   Input(Text("json", jsonBare), providerNone, TRUE),
   Input(providerError, providerNone, TRUE)}

\* a mapping generated and saved by an earlier run of the process
persistedMappingFile ==
  [exists |-> TRUE, corrupt |-> FALSE,
   mappings |-> Mappings("generated", directMappings, 0)]

\* what the generator does while the mapping is resolved
SyncMapInputs ==
  {Input(Text("json", mapJson), providerNone, TRUE),
   Input(providerError, providerNone, TRUE)}

\* the process is started with a batch waiting in AIMSii; the product of
\* record pA is already in the Shopify store
SyncInit ==
  /\ CacheInit
  /\ maxExamplesPerTemplate = 5
  /\ dryRun \in BOOLEAN
  /\ records \in Batches
  /\ i = 0
  /\ pc = "start"
  /\ attempt = 0
  /\ skuChecked = FALSE
  /\ pending = noOutput
  /\ stats = [total |-> 0, created |-> 0, skipped |-> 0, failed |-> 0,
              alreadyExists |-> 0]
  /\ shopify = {pA.Sku}
  /\ drafts = <<>>
  /\ processed = [n \in 1..Len(records) |-> 0]
  /\ mappingFile \in {noMappingFile, persistedMappingFile}
  /\ aiFieldMappings = nullMappings
  /\ aiInitialized = FALSE
  /\ mapCalls = 0
  /\ mapGen = 0
  /\ mapSaved = 0
  /\ mapLast = noResolutionObserved
  /\ AuxIdle

\* syncProducts up to the loop: initializeAILearningSystem loads the cache,
\* the records are fetched
SyncStart ==
  /\ pc = "start"
  /\ \E inp \in SyncMapInputs :
       Learned(initializeAILearningSystem(aiFieldMappings, aiInitialized,
                 mappingFile, transformCache, disk, now + 1, TRUE, TRUE,
                 inp.primary, inp.fallback, inp.ioOk))
  /\ now' = now + 1
  /\ stats' = [stats EXCEPT !.total = Len(records)]
  /\ pc' = IF Len(records) = 0 THEN "done" ELSE "check"
  /\ UNCHANGED <<disk, calls, last, pushed, maxExamplesPerTemplate, dryRun,
                 records, i, attempt, skuChecked, pending, shopify, drafts,
                 processed>>
  /\ UNCHANGED auxVars

\* the dry-run return is missing
stepAfterCheck_mut(dry) == "transform"

\* lines 119-123: in dry-run mode the record is done once its SKU is known
\* to be free
stepAfterCheck(dry) == IF dry THEN "dry_run" ELSE "transform"

\* processInventoryRecord, lines 93-123
SyncCheck ==
  /\ pc = "check"
  /\ LET record == records[i + 1]
         sku == SkuOf(record)
     IN IF sku = <<>>
        THEN Finish(Result(FALSE, "missing_sku"))
        ELSE \E lookup \in LookupOutcomes :
               IF checkProductBySkuGraphQL(sku, shopify, lookup)
               THEN Finish(Result(FALSE, "already_exists"))
               ELSE IF stepAfterCheck(dryRun) = "dry_run"
               THEN Finish(Result(TRUE, "dry_run"))
               ELSE /\ pc' = "transform"
                    /\ attempt' = 1
                    /\ skuChecked' = TRUE
                    /\ UNCHANGED <<stats, processed, i, pending>>
  /\ UNCHANGED <<cacheVars, maxExamplesPerTemplate, dryRun, records, shopify,
                 drafts, mapVars>>
  /\ UNCHANGED auxVars

\* one attempt of retryWithBackoff around transformProductWithAI, lines 127-143
SyncTransform ==
  /\ pc = "transform"
  /\ \E inp \in SyncInputs :
       LET record == records[i + 1]
           out == transformProductWithAI(transformCache, disk, now + 1, record,
                    aiFieldMappings, inp.primary, inp.fallback, inp.ioOk)
       IN /\ Call(record, aiFieldMappings, inp.primary, inp.fallback, inp.ioOk)
          /\ IF out.returned
             THEN /\ pending' = forceDraft(out.output)
                  /\ pc' = "create"
                  /\ attempt' = 1
                  /\ UNCHANGED <<stats, processed, i, skuChecked>>
             ELSE IF attempt < maxAttempts
             THEN /\ attempt' = attempt + 1
                  /\ UNCHANGED <<stats, processed, i, skuChecked, pending, pc>>
             ELSE Finish(Result(FALSE, "processing_error"))
  /\ UNCHANGED <<maxExamplesPerTemplate, dryRun, records, shopify, drafts,
                 mapVars>>
  /\ UNCHANGED auxVars

Draft(record, payload, store) ==
  [sku |-> SkuOf(record), payload |-> payload,
   existed |-> SkuOf(record) \in store, checked |-> skuChecked]

\* one attempt of retryWithBackoff around createProductDraft, lines 147-173;
\* ok: Shopify answers with the created product
SyncCreate ==
  /\ pc = "create"
  /\ drafts' = Append(drafts, Draft(records[i + 1], pending, shopify))
  /\ \E ok \in BOOLEAN :
       IF ok
       THEN /\ shopify' = shopify \cup
                 {pending.variants[n].sku : n \in DOMAIN pending.variants}
            /\ Finish(Result(TRUE, "created"))
       ELSE /\ shopify' = shopify
            /\ IF attempt < maxAttempts
               THEN /\ attempt' = attempt + 1
                    /\ UNCHANGED <<stats, processed, i, skuChecked, pending,
                                   pc>>
               ELSE Finish(Result(FALSE, "processing_error"))
  /\ UNCHANGED <<cacheVars, maxExamplesPerTemplate, dryRun, records, mapVars>>
  /\ UNCHANGED auxVars

SyncNext == SyncStart \/ SyncCheck \/ SyncTransform \/ SyncCreate

SpecSync == SyncInit /\ [][SyncNext]_vars

-----------------------------------------------------------------------------
(* index-ai-enhanced.js: startScheduledSync.  The first syncProducts is
   awaited; after it the interval timer starts a syncProducts at every tick,
   whether or not the run of the tick before has returned.  Each run is a
   chain of continuations: a step below runs from one await that leaves the
   process (network, file system, timer) to the next. *)

Run(recs) ==
  [records |-> recs, i |-> 0, pc |-> "start", attempt |-> 0,
   pending |-> noOutput, snapshot |-> noFile]

\* processInventoryRecord of run r returns result
RunFinished(r, result) ==
  [r EXCEPT !.i = @ + 1,
            !.pc = afterRecord(result, r.i + 1, Len(r.records)),
            !.attempt = 0, !.pending = noOutput, !.snapshot = noFile]

\* an attempt inside retryWithBackoff threw; back: where the next attempt
\* starts
RunFailed(r, back) ==
  IF r.attempt < maxAttempts
  THEN [r EXCEPT !.attempt = @ + 1, !.pc = back, !.snapshot = noFile]
  ELSE RunFinished(r, Result(FALSE, "processing_error"))

SchedProducts == {pA, pA2, pB}

SchedBatches == UNION {[1..n -> SchedProducts] : n \in 0..SchedRecords}

SchedInputs ==
  {Input(Text("json", jsonRaw), providerNone, TRUE),
   Input(providerError, providerNone, TRUE)}

\* the service after its first syncProducts, which found the persisted
\* mapping, no cache file and no record: the timer is set
SchedInit ==
  LET out == initializeAILearningSystem(nullMappings, FALSE,
               persistedMappingFile, nullCache, noFile, 1, TRUE, TRUE,
               providerError, providerNone, TRUE)
  IN /\ transformCache = out.cache
     /\ disk = noFile
     /\ now = 1
     /\ calls = 0
     /\ last = noCall
     /\ pushed = <<>>
     /\ maxExamplesPerTemplate = 5
     /\ dryRun = FALSE
     /\ records = <<>>
     /\ i = 0
     /\ pc = "done"
     /\ attempt = 0
     /\ skuChecked = FALSE
     /\ pending = noOutput
     /\ stats = [total |-> 0, created |-> 0, skipped |-> 0, failed |-> 0,
                 alreadyExists |-> 0]
     /\ shopify = {pA.Sku}
     /\ drafts = <<>>
     /\ processed = <<>>
     /\ mappingFile = out.file
     /\ aiFieldMappings = out.aiFieldMappings
     /\ aiInitialized = out.aiInitialized
     /\ mapCalls = 1
     /\ mapGen = 0
     /\ mapSaved = 0
     /\ mapLast = MapObserved("initializeAILearningSystem", out.resolved,
                              out.resolution, out.substituted)
     /\ loadLast = noLoad
     /\ runs = <<>>
     /\ fnArg = <<>>
     /\ fnRes = <<>>

SchedIdle ==
  UNCHANGED <<calls, last, pushed, maxExamplesPerTemplate, dryRun, records, i,
              pc, attempt, skuChecked, pending, stats, processed, mapVars,
              loadLast, fnArg, fnRes>>

\* lines 334-340: the timer fires and the callback calls syncProducts
TimerFires ==
  /\ Len(runs) < MaxRuns
  /\ \E recs \in SchedBatches : runs' = Append(runs, Run(recs))
  /\ UNCHANGED <<transformCache, disk, now, shopify, drafts>>
  /\ SchedIdle

\* syncProducts up to the loop; initializeAILearningSystem returns at once,
\* aiInitialized being set
RunStart ==
  /\ \E n \in DOMAIN runs :
       /\ runs[n].pc = "start"
       /\ runs' = [runs EXCEPT ![n].pc =
                     IF Len(runs[n].records) = 0 THEN "done" ELSE "check"]
  /\ UNCHANGED <<transformCache, disk, now, shopify, drafts>>
  /\ SchedIdle

\* processInventoryRecord, lines 93-123: the answer of the SKU check
RunCheck ==
  /\ \E n \in DOMAIN runs :
       /\ runs[n].pc = "check"
       /\ LET r == runs[n]
              sku == SkuOf(r.records[r.i + 1])
          IN \E lookup \in LookupOutcomes :
               runs' = [runs EXCEPT ![n] =
                 IF sku = <<>>
                 THEN RunFinished(r, Result(FALSE, "missing_sku"))
                 ELSE IF checkProductBySkuGraphQL(sku, shopify, lookup)
                 THEN RunFinished(r, Result(FALSE, "already_exists"))
                 ELSE [r EXCEPT !.pc = "transform", !.attempt = 1]]
  /\ UNCHANGED <<transformCache, disk, now, shopify, drafts>>
  /\ SchedIdle

\* transformProductWithAI from its call to the await of generateWithAI, or
\* to its return on a hit
RunBegin ==
  /\ \E n \in DOMAIN runs :
       /\ runs[n].pc = "transform"
       /\ LET r == runs[n]
              product == r.records[r.i + 1]
              mappedData == applyFieldMappings(product, aiFieldMappings)
              templateMatch == findMatchingTemplate(product, transformCache)
          IN IF templateMatch.found
                /\ templateMatch.similarity >= HitThreshold
             THEN LET out == useCachedTemplate(product, templateMatch,
                               mappedData, templateMatch.cache, disk, now)
                  IN /\ transformCache' = out.cache
                     /\ runs' = [runs EXCEPT ![n] =
                          IF out.returned
                          THEN [r EXCEPT !.pc = "create", !.attempt = 1,
                                         !.pending = forceDraft(out.output)]
                          ELSE RunFailed(r, "transform")]
             ELSE /\ transformCache' = templateMatch.cache
                  /\ runs' = [runs EXCEPT ![n].pc = "generating"]
  /\ UNCHANGED <<disk, now, shopify, drafts>>
  /\ SchedIdle

\* generateWithAI answers: parse, normalise, and cacheTransformation up to
\* the await of fs.writeFile, the document to write being built already
RunGenerated ==
  /\ \E n \in DOMAIN runs, inp \in SchedInputs :
       /\ runs[n].pc = "generating"
       /\ LET r == runs[n]
              product == r.records[r.i + 1]
              mappedData == applyFieldMappings(product, aiFieldMappings)
              gen == generateWithAI(inp.primary, inp.fallback)
              shopifyProduct == normalize(gen.text.json, product, mappedData)
              saved == cacheTransformation(product, shopifyProduct,
                         transformCache, disk, now + 1, TRUE)
          IN IF gen.threw \/ gen.text.kind # "json"
             THEN /\ runs' = [runs EXCEPT ![n] = RunFailed(r, "transform")]
                  /\ UNCHANGED <<transformCache, now>>
             ELSE /\ transformCache' = saved.cache
                  /\ now' = now + 1
                  /\ runs' = [runs EXCEPT ![n] =
                       IF saved.threw THEN RunFailed(r, "transform")
                       ELSE [r EXCEPT !.pc = "saving",
                                      !.pending = forceDraft(shopifyProduct),
                                      !.snapshot = saved.disk]]
  /\ UNCHANGED <<disk, shopify, drafts>>
  /\ SchedIdle

\* fs.writeFile answers and the transform returns or throws
RunSaved ==
  /\ \E n \in DOMAIN runs, ioOk \in BOOLEAN :
       /\ runs[n].pc = "saving"
       /\ IF ioOk
          THEN /\ disk' = runs[n].snapshot
               /\ runs' = [runs EXCEPT ![n].pc = "create",
                                       ![n].attempt = 1,
                                       ![n].snapshot = noFile]
          ELSE /\ disk' = disk
               /\ runs' = [runs EXCEPT ![n] =
                            RunFailed([runs[n] EXCEPT !.pending = noOutput],
                                      "transform")]
  /\ UNCHANGED <<transformCache, now, shopify, drafts>>
  /\ SchedIdle

\* one attempt of retryWithBackoff around createProductDraft
RunCreate ==
  /\ \E n \in DOMAIN runs, ok \in BOOLEAN :
       /\ runs[n].pc = "create"
       /\ LET r == runs[n]
              record == r.records[r.i + 1]
          IN /\ drafts' = Append(drafts,
                  [sku |-> SkuOf(record), payload |-> r.pending,
                   existed |-> SkuOf(record) \in shopify, checked |-> TRUE])
             /\ IF ok
                THEN /\ shopify' = shopify \cup
                          {r.pending.variants[k].sku :
                             k \in DOMAIN r.pending.variants}
                     /\ runs' = [runs EXCEPT ![n] =
                                  RunFinished(r, Result(TRUE, "created"))]
                ELSE /\ shopify' = shopify
                     /\ runs' = [runs EXCEPT ![n] = RunFailed(r, "create")]
  /\ UNCHANGED <<transformCache, disk, now>>
  /\ SchedIdle

SchedNext ==
  \/ TimerFires
  \/ RunStart
  \/ RunCheck
  \/ RunBegin
  \/ RunGenerated
  \/ RunSaved
  \/ RunCreate

SpecSched == SchedInit /\ [][SchedNext]_vars

-----------------------------------------------------------------------------
(* Concurrent calls of transformProductWithAI in one process.  A call runs
   from one await that leaves the process (readFile, the generator,
   writeFile) to the next; `runs` holds the calls started so far.  Every
   call reads and writes the module-level variable transformCache and keeps
   no reference of its own to the cache object. *)

\* looked: findMatchingTemplate has run for the call; loads: how many times
\* the call has assigned a loaded cache to transformCache
TransformRun(product, at) ==
  [product |-> product, pc |-> at, pending |-> noOutput, snapshot |-> noFile,
   looked |-> FALSE, loads |-> 0]

ConcProducts == {pA6, pA7, pB}

ConcInputs ==
  {Input(Text("json", jsonRaw), providerNone, TRUE),
   Input(providerError, providerNone, TRUE)}

\* lines 48-98: from the mapping to the return of the hit path or to the
\* await of generateWithAI
LookedUp(c, cache) ==
  LET mappedData == applyFieldMappings(c.product, fieldMappings)
      templateMatch == findMatchingTemplate(c.product, cache)
      out == useCachedTemplate(c.product, templateMatch, mappedData,
                               templateMatch.cache, disk, now)
  IN IF templateMatch.found /\ templateMatch.similarity >= HitThreshold
     THEN [cache |-> out.cache,
           run |-> [c EXCEPT !.looked = TRUE,
                             !.pc = IF out.returned THEN "returned"
                                    ELSE "threw",
                             !.pending = out.output]]
     ELSE [cache |-> templateMatch.cache,
           run |-> [c EXCEPT !.looked = TRUE, !.pc = "generating"]]

ConcIdle ==
  UNCHANGED <<calls, last, maxExamplesPerTemplate, dryRun, syncVars, mapVars,
              loadLast, fnArg, fnRes>>

\* a call starts on the loaded cache
ConcCall ==
  /\ Len(runs) < MaxConcCalls
  /\ transformCache.loaded
  /\ \E product \in ConcProducts :
       LET step == LookedUp(TransformRun(product, "start"), transformCache)
       IN /\ transformCache' = step.cache
          /\ runs' = Append(runs, step.run)
  /\ UNCHANGED <<disk, now, pushed>>
  /\ ConcIdle

\* a call starts; while transformCache is null it awaits
\* initializeTransformCache, which awaits loadTransformationCache
LazyCall ==
  /\ Len(runs) < MaxConcCalls
  /\ \E product \in ConcProducts :
       IF transformCache.loaded
       THEN LET step == LookedUp(TransformRun(product, "start"),
                                 transformCache)
            IN /\ transformCache' = step.cache
               /\ runs' = Append(runs, step.run)
       ELSE /\ transformCache' = transformCache
            /\ runs' = Append(runs, TransformRun(product, "loading"))
  /\ UNCHANGED <<disk, now, pushed>>
  /\ ConcIdle

\* the load a call awaits answers: initializeTransformCache assigns the
\* loaded cache to transformCache and the call goes on to its lookup
LazyLoaded ==
  /\ \E n \in DOMAIN runs :
       /\ runs[n].pc = "loading"
       /\ LET load == loadTransformationCache(disk, now + 1)
              step == LookedUp([runs[n] EXCEPT !.loads = 1], load.cache)
          IN IF load.threw
             THEN /\ transformCache' = transformCache
                  /\ runs' = [runs EXCEPT ![n].pc = "threw"]
             ELSE /\ transformCache' = step.cache
                  /\ runs' = [runs EXCEPT ![n] = step.run]
  /\ now' = now + 1
  /\ UNCHANGED <<disk, pushed>>
  /\ ConcIdle

\* generateWithAI answers: parse, normalise, and cacheTransformation up to
\* the await of fs.writeFile
ConcGenerated ==
  /\ \E n \in DOMAIN runs, inp \in ConcInputs :
       /\ runs[n].pc = "generating"
       /\ LET c == runs[n]
              mappedData == applyFieldMappings(c.product, fieldMappings)
              gen == generateWithAI(inp.primary, inp.fallback)
              shopifyProduct == normalize(gen.text.json, c.product, mappedData)
              saved == cacheTransformation(c.product, shopifyProduct,
                         transformCache, disk, now + 1, TRUE)
              k == generateCacheKey(c.product)
          IN IF gen.threw \/ gen.text.kind # "json"
             THEN /\ runs' = [runs EXCEPT ![n].pc = "threw"]
                  /\ UNCHANGED <<transformCache, now, pushed>>
             ELSE /\ transformCache' = saved.cache
                  /\ now' = now + 1
                  /\ pushed' =
                       (k :> Append(IF k \in DOMAIN pushed THEN pushed[k]
                                    ELSE <<>>,
                                    Example(c.product, shopifyProduct,
                                            now + 1))) @@ pushed
                  /\ runs' = [runs EXCEPT ![n] =
                       IF saved.threw THEN [c EXCEPT !.pc = "threw"]
                       ELSE [c EXCEPT !.pc = "saving",
                                      !.pending = shopifyProduct,
                                      !.snapshot = saved.disk]]
  /\ UNCHANGED disk
  /\ ConcIdle

\* fs.writeFile answers and the call returns or throws
ConcSaved ==
  /\ \E n \in DOMAIN runs, ioOk \in BOOLEAN :
       /\ runs[n].pc = "saving"
       /\ disk' = IF ioOk THEN runs[n].snapshot ELSE disk
       /\ runs' = [runs EXCEPT ![n].pc = IF ioOk THEN "returned"
                                         ELSE "threw",
                               ![n].snapshot = noFile]
  /\ UNCHANGED <<transformCache, now, pushed>>
  /\ ConcIdle

SeedProducts == <<pA, pAsp, pAv, pA5>>

\* what an earlier process left after n misses under the key g|a|y
RECURSIVE Seeded(_)
Seeded(n) ==
  IF n = 0
  THEN Outcome(nullCache, noFile, FALSE, noOutput, "none", "none", 0, 0, <<>>)
  ELSE transformProductWithAI(Seeded(n - 1).cache, Seeded(n - 1).disk, n,
                              SeedProducts[n], fieldMappings,
                              Text("json", jsonRaw), providerNone, TRUE)

\* the process has loaded the cache file an earlier process left
SharedInit ==
  /\ \E n \in {Len(SeedProducts) - 1, Len(SeedProducts)} :
       /\ disk = Seeded(n).disk
       /\ transformCache = loadTransformationCache(disk, n + 1).cache
       /\ now = n + 1
       /\ pushed = (generateCacheKey(pA) :>
                     transformCache.templates[generateCacheKey(pA)].examples)
  /\ calls = 0
  /\ last = noCall
  /\ maxExamplesPerTemplate = 5
  /\ SyncIdle
  /\ MapIdle
  /\ AuxIdle

SharedNext == ConcCall \/ ConcGenerated \/ ConcSaved

SpecShared == SharedInit /\ [][SharedNext]_vars

\* a process that has not loaded its cache yet; no cache file
LazyInit ==
  /\ CacheInit
  /\ calls = 0
  /\ last = noCall
  /\ pushed = <<>>
  /\ maxExamplesPerTemplate = 5
  /\ SyncIdle
  /\ MapIdle
  /\ AuxIdle

LazyNext == LazyCall \/ LazyLoaded \/ ConcGenerated \/ ConcSaved

SpecLazy == LazyInit /\ [][LazyNext]_vars

-----------------------------------------------------------------------------
(* index.js: the sync without the learning system.  It shares config, the
   SKU check, retryWithBackoff and createProductDraft with index-ai-enhanced.js
   and transforms with openaiService.generateShopifyProductJson. *)

\* a record as index.js reads it: the SKU in the column that
\* config.fieldMapping['variants.sku'] names, `sku`
AimsiiRecord(p) == [p EXCEPT !.sku = p.Sku, !.Sku = <<>>]

BasicProducts == {AimsiiRecord(pA), AimsiiRecord(pB), pNoSku}

BasicBatches == UNION {[1..n -> BasicProducts] : n \in 0..MaxRecords}

\* what generateShopifyProductJson answers: a text that parses, a text that
\* does not, or an error
BasicInputs == {Text("json", jsonRaw), Text("json", jsonNormal), badJson,
                providerError}

\* JSON.parse(shopifyJsonString) as createProductDraft receives it: nothing
\* is normalised
shopifyData(json) ==
  Shopify(FALSE, json.hasBody, json.title, json.body_html, json.vendor,
          json.product_type, json.tags, json.published, json.variants,
          json.images)

\* lines 168-171: in dry-run mode the record is done once it is transformed
stepAfterTransform(dry) == IF dry THEN "dry_run" ELSE "create"

\* processInventoryRecord of index.js returns result for records[i + 1]
BasicFinish(result) ==
  /\ stats' = tally(stats, result)
  /\ processed' = [processed EXCEPT ![i + 1] = @ + 1]
  /\ i' = i + 1
  /\ pc' = IF afterRecord(result, i + 1, Len(records)) = "done" THEN "done"
           ELSE "basic_check"
  /\ attempt' = 0
  /\ skuChecked' = FALSE
  /\ pending' = noOutput

BasicInit ==
  /\ CacheInit
  /\ maxExamplesPerTemplate = 5
  /\ dryRun \in BOOLEAN
  /\ records \in BasicBatches
  /\ i = 0
  /\ pc = "basic_start"
  /\ attempt = 0
  /\ skuChecked = FALSE
  /\ pending = noOutput
  /\ stats = [total |-> 0, created |-> 0, skipped |-> 0, failed |-> 0,
              alreadyExists |-> 0]
  /\ shopify = {pA.Sku}
  /\ drafts = <<>>
  /\ processed = [n \in 1..Len(records) |-> 0]
  /\ MapIdle
  /\ AuxIdle

\* syncProducts of index.js up to the loop; connected: testAimsiiConnection
BasicStart ==
  /\ pc = "basic_start"
  /\ \E connected \in BOOLEAN :
       IF connected
       THEN /\ stats' = [stats EXCEPT !.total = Len(records)]
            /\ pc' = IF Len(records) = 0 THEN "done" ELSE "basic_check"
       ELSE /\ stats' = stats
            /\ pc' = "done"
  /\ UNCHANGED <<cacheVars, maxExamplesPerTemplate, dryRun, records, i,
                 attempt, skuChecked, pending, shopify, drafts, processed,
                 mapVars>>
  /\ UNCHANGED auxVars

\* processInventoryRecord of index.js: the SKU and the existence check
BasicCheck ==
  /\ pc = "basic_check"
  /\ LET sku == records[i + 1].sku IN
       IF sku = <<>>
       THEN BasicFinish(Result(FALSE, "missing_sku"))
       ELSE \E lookup \in LookupOutcomes :
              IF checkProductBySkuGraphQL(sku, shopify, lookup)
              THEN BasicFinish(Result(FALSE, "already_exists"))
              ELSE /\ pc' = "basic_transform"
                   /\ attempt' = 1
                   /\ skuChecked' = TRUE
                   /\ UNCHANGED <<stats, processed, i, pending>>
  /\ UNCHANGED <<cacheVars, maxExamplesPerTemplate, dryRun, records, shopify,
                 drafts, mapVars>>
  /\ UNCHANGED auxVars

\* one attempt of retryWithBackoff around generateShopifyProductJson, then
\* JSON.parse and the dry-run return, lines 147-171
BasicTransform ==
  /\ pc = "basic_transform"
  /\ \E text \in BasicInputs :
       IF text.kind = "error"
       THEN IF attempt < maxAttempts
            THEN /\ attempt' = attempt + 1
                 /\ UNCHANGED <<stats, processed, i, skuChecked, pending, pc>>
            ELSE BasicFinish(Result(FALSE, "processing_error"))
       ELSE IF text.kind = "badjson"
       THEN BasicFinish(Result(FALSE, "processing_error"))
       ELSE IF stepAfterTransform(dryRun) = "dry_run"
       THEN BasicFinish(Result(TRUE, "dry_run"))
       ELSE /\ pending' = shopifyData(text.json)
            /\ pc' = "basic_create"
            /\ attempt' = 1
            /\ UNCHANGED <<stats, processed, i, skuChecked>>
  /\ UNCHANGED <<cacheVars, maxExamplesPerTemplate, dryRun, records, shopify,
                 drafts, mapVars>>
  /\ UNCHANGED auxVars

\* one attempt of retryWithBackoff around createProductDraft, lines 173-188
BasicCreate ==
  /\ pc = "basic_create"
  /\ drafts' = Append(drafts, Draft(records[i + 1], pending, shopify))
  /\ \E ok \in BOOLEAN :
       IF ok
       THEN /\ shopify' = shopify \cup
                 {pending.variants[n].sku : n \in DOMAIN pending.variants}
            /\ BasicFinish(Result(TRUE, "created"))
       ELSE /\ shopify' = shopify
            /\ IF attempt < maxAttempts
               THEN /\ attempt' = attempt + 1
                    /\ UNCHANGED <<stats, processed, i, skuChecked, pending,
                                   pc>>
               ELSE BasicFinish(Result(FALSE, "processing_error"))
  /\ UNCHANGED <<cacheVars, maxExamplesPerTemplate, dryRun, records, mapVars>>
  /\ UNCHANGED auxVars

BasicNext == BasicStart \/ BasicCheck \/ BasicTransform \/ BasicCreate

\* either program, started on a batch
DryInit == SyncInit \/ BasicInit

DryNext == SyncNext \/ BasicNext

SpecDry == DryInit /\ [][DryNext]_vars

-----------------------------------------------------------------------------
(* Properties *)

Templates == transformCache.templates

ExamplesUnchanged ==
  /\ DOMAIN transformCache'.templates = DOMAIN transformCache.templates
  /\ \A k \in DOMAIN transformCache.templates :
       transformCache'.templates[k].examples
         = transformCache.templates[k].examples

CallMade == calls' = calls + 1

\* C1: in every state between calls, totalTransformations equals
\* cacheHits + cacheMisses.
C1_TotalIsHitsPlusMisses == Total = Hits + Misses

\* the claim's condition for a hit: the template under the product's own key
\* has an example and the best similarity over its examples is at least 0.8
HitCondition(product, cache) ==
  LET k == generateCacheKey(product) IN
  /\ k \in DOMAIN cache.templates
  /\ Len(cache.templates[k].examples) >= 1
  /\ \E n \in DOMAIN cache.templates[k].examples :
       calculateSimilarity(product,
                           cache.templates[k].examples[n].sourceProduct) >= 8

\* C2: a call returns a template-applied output without a generator call if
\* and only if the hit condition holds before the call; in every other case
\* the generator is invoked.
C2_TemplateOutputIffHitCondition ==
  [][CallMade =>
       /\ (last'.returned /\ last'.path = "template" /\ last'.genCalls = 0)
            <=> HitCondition(last'.product, transformCache)
       /\ ~HitCondition(last'.product, transformCache)
            => last'.genCalls >= 1]_vars

\* C3: a call that resolves via cache hit leaves every template's example
\* list unchanged and does not write the persisted cache document.
C3_HitLeavesExamplesAndDisk ==
  [][(CallMade /\ last'.returned /\ last'.path = "template")
       => (ExamplesUnchanged /\ disk' = disk)]_vars

C3_Witness ==
  /\ last.returned /\ last.path = "template"
  /\ disk.exists
  /\ last.product = pA2

\* C4: a successful call without generator call adds 1 to cacheHits and
\* nothing to cacheMisses, a successful call with a generator call adds 1 to
\* cacheMisses and nothing to cacheHits, and both add 1 to
\* totalTransformations.
C4_CountersFollowOutcomes ==
  [][(CallMade /\ last'.returned) =>
       /\ transformCache'.stats.totalTransformations = Total + 1
       /\ last'.genCalls = 0 =>
            /\ transformCache'.stats.cacheHits = Hits + 1
            /\ transformCache'.stats.cacheMisses = Misses
       /\ last'.genCalls >= 1 =>
            /\ transformCache'.stats.cacheMisses = Misses + 1
            /\ transformCache'.stats.cacheHits = Hits]_vars

\* the n most recent entries of a history, oldest first
MostRecent(h, n) == [j \in 1..n |-> h[Len(h) - n + j]]

\* C5: once 5 + k examples (k > 0) have been inserted under a key, exactly 5
\* remain and they are the 5 most recently inserted, in insertion order.
C5_KeepsFiveMostRecent ==
  \A k \in DOMAIN pushed :
    Len(pushed[k]) > 5 =>
      /\ k \in DOMAIN Templates
      /\ Len(Templates[k].examples) = 5
      /\ Templates[k].examples = MostRecent(pushed[k], 5)

C5_Witness ==
  \E k \in DOMAIN pushed :
    /\ Len(pushed[k]) = 7
    /\ Len(Templates[k].examples) = 5
    /\ Templates[k].examples[1] = pushed[k][3]

\* C6: every template's example list is at most as long as the configured
\* maximum, config.aiLearning.maxExamplesPerTemplate.
C6_WithinConfiguredMaximum ==
  \A k \in DOMAIN Templates :
    Len(Templates[k].examples) <= maxExamplesPerTemplate

\* C9: when the generation call fails or its output does not parse, the call
\* fails, it has invoked the generator exactly once, and no example is added
\* to any template.
C9_GenerationFailure ==
  [][(CallMade /\ last'.gen \in {"threw", "badjson"}) =>
       /\ ~last'.returned
       /\ last'.genCalls = 1
       /\ ExamplesUnchanged]_vars

C9_Witness ==
  /\ last.gen = "badjson"
  /\ ~last.returned
  /\ calls >= 2
  /\ DOMAIN Templates # {}

\* the cache as a call finds it after its lazy initialisation
Before == initializeTransformCache(transformCache, disk, now + 1).cache

\* the call generated and parsed a product and threw afterwards: the save of
\* cacheTransformation failed
SaveFailed == CallMade /\ last'.gen = "json" /\ ~last'.returned

\* C11: when persisting fails during the write-back of a miss, the new
\* example stays last in the template of the product's key, the counter
\* findMatchingTemplate incremented and totalTransformations stay
\* incremented, the document on disk is left as it was and so differs from
\* the cache in memory.
C11_SaveFailureKeepsMutation ==
  [][SaveFailed =>
       LET k == generateCacheKey(last'.product) IN
       /\ k \in DOMAIN transformCache'.templates
       /\ LET ex == transformCache'.templates[k].examples IN
            /\ Len(ex) >= 1
            /\ ex[Len(ex)].cachedAt = now'
            /\ ex[Len(ex)].sourceProduct.Model = last'.product.Model
       /\ transformCache'.stats.totalTransformations
            = Before.stats.totalTransformations + 1
       /\ transformCache'.stats.cacheHits + transformCache'.stats.cacheMisses
            = Before.stats.cacheHits + Before.stats.cacheMisses + 1
       /\ disk' = disk
       /\ ~disk'.exists \/ disk'.templates # transformCache'.templates]_vars

\* a write failure (not a serialisation failure) after an earlier save went
\* through: memory is one example ahead of the document
C11_Witness ==
  /\ last.gen = "json" /\ ~last.returned
  /\ disk.exists
  /\ LET k == generateCacheKey(last.product) IN
       /\ k \in DOMAIN Templates
       /\ ~Templates[k].examples[Len(Templates[k].examples)]
             .shopifyProduct.selfRef
       /\ Templates[k].examples[Len(Templates[k].examples)].cachedAt = now
  /\ disk.templates # Templates
  /\ Total = disk.stats.totalTransformations + 1

\* C12: after a call that generated, cached and returned, the persisted
\* document holds the templates and all the counters of the cache in memory,
\* and stats.lastUpdated is the time of that save.
C12_DocumentEqualsMemoryAfterMiss ==
  [][(CallMade /\ last'.returned /\ last'.path = "generate") =>
       /\ disk'.exists
       /\ disk'.templates = transformCache'.templates
       /\ disk'.stats = transformCache'.stats
       /\ disk'.stats.lastUpdated = now']_vars

\* the save also carries a hit that was only counted in memory before
C12_Witness ==
  /\ last.returned /\ last.path = "generate"
  /\ disk.exists
  /\ disk.stats.cacheHits = 1 /\ Hits = 1
  /\ disk.stats.lastUpdated = now
  /\ disk.templates = Templates
  /\ calls = 3

MapCallMade == mapCalls' = mapCalls + 1

\* the file holds a mapping
Persisted(file) == file.exists /\ ~file.corrupt

\* a call of initializeFieldMappings that finds a persisted mapping returns
\* it, calls the generator zero times and leaves the file alone
ReusesPersisted ==
  (MapCallMade /\ mapLast'.resolved /\ Persisted(mappingFile)) =>
    /\ ~mapLast'.threw
    /\ mapLast'.value = mappingFile.mappings
    /\ mapLast'.genCalls = 0
    /\ mappingFile' = mappingFile

\* C13 as stated: once a mapping is persisted every later
\* initializeFieldMappings call returns it without a generator call, and as
\* long as the file is not removed the generator is called for a mapping at
\* most once over all calls.
C13_GeneratorAtMostOnce ==
  [][ReusesPersisted /\ mapGen' <= 1]_vars

\* C13 amended: once a mapping is persisted every later
\* initializeFieldMappings call returns it without a generator call; every
\* call calls the generator at most once, and as long as the file is not
\* removed at most one generator call ends with a persisted mapping.
C13_PersistedMappingIsReused ==
  [][/\ ReusesPersisted
     /\ MapCallMade => mapLast'.genCalls <= 1
     /\ mapSaved' <= 1]_vars

\* a failed generation, a generation that was saved, then a call that
\* returns the saved mapping
C13_Witness ==
  /\ mapLast.fn = "initializeFieldMappings"
  /\ ~mapLast.threw /\ mapLast.genCalls = 0
  /\ mapLast.value.kind = "generated"
  /\ Persisted(mappingFile) /\ mapLast.value = mappingFile.mappings
  /\ mapCalls = 3 /\ mapGen = 2 /\ mapSaved = 1

\* C14: when the generation of a mapping fails or its output does not
\* parse, the resolution fails with an error, the file is left as it was and
\* the caller does not go on with a substituted mapping.
C14_GenerationFailureFails ==
  [][(MapCallMade /\ mapLast'.gen \in {"threw", "badjson", "notobject"}) =>
       /\ mapLast'.threw
       /\ mappingFile' = mappingFile
       /\ ~mapLast'.substituted
       /\ aiFieldMappings'.kind # "manual"]_vars

LoadMade == loadLast'.n = loadLast.n + 1

\* C15: a load that finds no file does not fail and gives an empty cache (no
\* templates, the three counters 0), which becomes the process's cache; a
\* load that finds a file that does not parse fails, leaves the process
\* without cache and leaves the file as it is; so does the lazy load of a
\* transform.
C15_LoadAbsentOrCorrupt ==
  [][/\ (LoadMade /\ ~transformCache.loaded /\ ~disk.exists) =>
          /\ ~loadLast'.threw
          /\ loadLast'.cache.templates = noTemplates
          /\ loadLast'.cache.stats.totalTransformations = 0
          /\ loadLast'.cache.stats.cacheHits = 0
          /\ loadLast'.cache.stats.cacheMisses = 0
          /\ transformCache' = loadLast'.cache
     /\ (LoadMade /\ ~transformCache.loaded /\ disk.exists /\ disk.corrupt) =>
          /\ loadLast'.threw
          /\ ~transformCache'.loaded
     /\ LoadMade => disk' = disk
     /\ (CallMade /\ ~transformCache.loaded /\ disk.exists /\ disk.corrupt) =>
          /\ ~last'.returned /\ last'.path = "load"
          /\ disk' = disk]_vars

\* the file does not parse: a load and a transform have both failed, the
\* file is still there
C15_Witness ==
  /\ loadLast.n >= 1 /\ loadLast.threw
  /\ last.path = "load"
  /\ disk = corruptFile
  /\ ~transformCache.loaded

\* C17: the lookup leaves the cache as it found it: findMatchingTemplate
\* returns the cache unchanged for the product of every call, and a call that
\* goes no further than lookup and applyTemplate leaves templates and
\* counters unchanged.
C17_LookupIsPureRead ==
  [][CallMade =>
       /\ findMatchingTemplate(last'.product, Before).cache = Before
       /\ last'.path = "template" => transformCache' = Before]_vars

\* the (category, subcategory, brand) triple of a record, an absent category
\* or brand replaced by "unknown"
TripleOf(p) ==
  <<Or(Or(p.CatDesc, p.category), unknown),
    Or(p.SubDesc, p.subcategory),
    Or(Or(Or(p.Mfg, p.vendor), p.brand), unknown)>>

\* a component without its surrounding white space, in lower case
Fold(x) == toLowerCase(trim(x))

ExpectedKey(p) ==
  Fold(TripleOf(p)[1]) \o <<"|">> \o Fold(TripleOf(p)[2]) \o <<"|">>
    \o Fold(TripleOf(p)[3])

\* the triples differ at most in letter case and surrounding white space
SameTriple(p, q) == \A n \in 1..3 : Fold(TripleOf(p)[n]) = Fold(TripleOf(q)[n])

\* C18: the key of a record is its lowercased, trimmed, pipe-joined
\* (category, subcategory, brand) triple with the defaults "unknown", "" and
\* "unknown"; two records whose triples differ only in letter case or
\* surrounding white space, or that differ in other fields only, have the
\* same key.
C18_KeyIsFoldedTriple ==
  fnRes # <<>> =>
    /\ fnRes[1] = ExpectedKey(fnArg[1])
    /\ fnRes[2] = ExpectedKey(fnArg[2])
    /\ SameTriple(fnArg[1], fnArg[2]) => fnRes[1] = fnRes[2]

\* 'g ' with the brand in `vendor` against ' G' in `category` with the brand
\* in Mfg, another model, no subcategory: one key, g||y
C18_Witness ==
  /\ fnRes # <<>>
  /\ fnArg[1].CatDesc = <<"g", " ">> /\ fnArg[1].Mfg = <<>>
  /\ fnArg[1].vendor = <<"y", " ">>
  /\ fnArg[2].CatDesc = <<>> /\ fnArg[2].category = <<" ", "G">>
  /\ fnArg[2].Mfg = <<"Y">>
  /\ fnArg[1].Model # fnArg[2].Model
  /\ fnArg[1].SubDesc = <<>> /\ fnArg[2].SubDesc = <<>>
  /\ fnRes[1] = fnRes[2]
  /\ fnRes[1] = <<"g", "|", "|", "y">>

\* C19 as stated: normalising a normalised output changes nothing, and a
\* normalised output is unpublished, has no image and EXACTLY one variant.
C19_ExactlyOneVariant ==
  /\ Len(fnRes) = 2 => fnRes[2] = fnRes[1]
  /\ \A n \in DOMAIN fnRes :
       /\ fnRes[n].published = FALSE
       /\ fnRes[n].images = <<>>
       /\ Len(fnRes[n].variants) = 1

\* C19, amended: normalising a normalised output changes nothing, and a
\* normalised output is unpublished, has no image and at least one variant:
\* the generated variants, however many, when the generated list is not
\* empty, and otherwise the single variant built from the record.
C19_NormalizationIsIdempotent ==
  /\ Len(fnRes) = 2 => fnRes[2] = fnRes[1]
  /\ \A n \in DOMAIN fnRes :
       /\ fnRes[n].published = FALSE
       /\ fnRes[n].images = <<>>
       /\ fnRes[n].variants =
            IF fnArg.json.variants # <<>> THEN fnArg.json.variants
            ELSE <<OwnVariant(fnArg.product,
                     applyFieldMappings(fnArg.product, fieldMappings))>>
       /\ Len(fnRes[n].variants) >= 1

\* a published product with an image and two variants, returned without the
\* envelope, normalised twice
C19_Witness ==
  /\ Len(fnRes) = 2
  /\ fnArg.json.published /\ fnArg.json.images # <<>>
  /\ ~fnArg.json.envelope
  /\ Len(fnArg.json.variants) = 2
  /\ fnRes[2] = fnRes[1]
  /\ fnRes[2].selfRef
  /\ Len(fnRes[2].variants) = 2

\* C20: in dry-run mode createProductDraft is never called, whatever the
\* records and whatever the SKU check answers, by index-ai-enhanced.js and by
\* index.js.
C20_DryRunCreatesNothing ==
  dryRun => drafts = <<>> /\ pc \notin {"create", "basic_create"}

\* index-ai-enhanced.js in dry-run mode has finished a batch in which a
\* record passed the SKU check
C20_Witness ==
  /\ dryRun /\ pc = "done" /\ aiInitialized
  /\ Len(records) = MaxRecords
  /\ stats.created >= 1 /\ stats.alreadyExists >= 1
  /\ drafts = <<>>

\* run n is inside transformProductWithAI, waiting for the generator or for
\* the write of the cache file
InFlight(n) == runs[n].pc \in {"generating", "saving"}

\* C16: at most one transform is in flight on the shared cache at any time,
\* the runs started by the interval timer included.
C16_OneTransformInFlight ==
  Cardinality({n \in DOMAIN runs : InFlight(n)}) <= 1

\* the call generated, cached and returned, and found no template under the
\* key of its product
FirstMiss ==
  /\ CallMade
  /\ last'.returned
  /\ last'.path = "generate"
  /\ generateCacheKey(last'.product) \notin DOMAIN Before.templates

\* C21: a successful miss-path call for product p on a cache without a
\* template under key(p) creates the template of key(p) with exactly one
\* example, whose sourceProduct is p's Mfg, Model, Desc, Cat Desc and Sub Desc
\* and whose shopifyProduct is the output returned; no other template is
\* created or changed.
C21_FirstMissCreatesOneTemplate ==
  [][FirstMiss =>
       LET p == last'.product
           k == generateCacheKey(p)
       IN /\ DOMAIN transformCache'.templates
               = DOMAIN Before.templates \cup {k}
          /\ Len(transformCache'.templates[k].examples) = 1
          /\ transformCache'.templates[k].examples[1].sourceProduct
               = [Mfg |-> p.Mfg, Model |-> p.Model, Desc |-> p.Desc,
                  CatDesc |-> p.CatDesc, SubDesc |-> p.SubDesc]
          /\ transformCache'.templates[k].examples[1].shopifyProduct
               = last'.output
          /\ \A j \in DOMAIN Before.templates :
               transformCache'.templates[j] = Before.templates[j]]_vars

\* the second call created the template of pB next to the one of pA
C21_Witness ==
  /\ calls = 2
  /\ last.returned /\ last.path = "generate" /\ last.product = pB
  /\ DOMAIN Templates = {generateCacheKey(pA), generateCacheKey(pB)}
  /\ Len(Templates[generateCacheKey(pB)].examples) = 1
  /\ Templates[generateCacheKey(pB)].examples[1].shopifyProduct = last.output
  /\ Templates[generateCacheKey(pB)].examples[1].cachedAt = now

\* two field values, an absent one being the empty string, are the same
\* string up to the case of their letters
SameIgnoringCase(a, b) ==
  /\ Len(a) = Len(b)
  /\ \A n \in 1..Len(a) : LowerChar(a[n]) = LowerChar(b[n])

Weight(a, b, w) == IF SameIgnoringCase(a, b) THEN w ELSE 0

LatestExample == fnArg.examples[Len(fnArg.examples)]

\* C23: on a hit the applicator works from the example added last to the
\* matched template, whichever example scores best: it fails exactly when
\* that example has no description, and otherwise the description returned
\* is the one of that example with its placeholders filled in.
C23_AppliesLatestExample ==
  fnRes # <<>> =>
    /\ fnRes[1].threw = ~LatestExample.shopifyProduct.hasBody
    /\ ~fnRes[1].threw =>
         /\ Len(fnRes[1].result.body_html)
              = Len(LatestExample.shopifyProduct.body_html)
         /\ fnRes[1].result.body_html[1]
              = LatestExample.shopifyProduct.body_html[1]

\* the first example scores 1.0 and the last one 0.6; the description
\* returned is the one of the last
C23_Witness ==
  /\ fnRes # <<>>
  /\ Len(fnArg.examples) = 2
  /\ calculateSimilarity(fnArg.product, fnArg.examples[1].sourceProduct) = 10
  /\ calculateSimilarity(fnArg.product, fnArg.examples[2].sourceProduct) = 6
  /\ fnArg.examples[1].shopifyProduct.hasBody
  /\ fnArg.examples[1].shopifyProduct.body_html[1] = <<"t">>
  /\ ~fnRes[1].threw
  /\ fnRes[1].result.body_html[1] = <<"o">>

\* C24: the title and the single variant of a hit's output come from the
\* candidate's own and mapped fields, not from the example; the output has
\* exactly one variant and no image.
C24_HitOutputFromCandidate ==
  fnRes # <<>> /\ ~fnRes[1].threw =>
    LET p == fnArg.product
        m == applyFieldMappings(p, fieldMappings)
        out == fnRes[1].result
    IN /\ out.title = trim(p.Mfg \o <<" ">> \o p.Model \o <<" ">> \o p.Desc)
       /\ Len(out.variants) = 1
       /\ out.variants[1].price
            = (IF p.Ourprice # <<>> THEN p.Ourprice
               ELSE IF m.vprice # <<>> THEN m.vprice ELSE <<"0">>)
       /\ out.variants[1].sku
            = (IF p.Sku # <<>> THEN p.Sku ELSE m.vsku)
       /\ out.variants[1].inventory_quantity
            = (IF p.CompQty # <<>> THEN p.CompQty
               ELSE IF m.vqty # <<>> THEN m.vqty ELSE <<"0">>)
       /\ out.variants[1].barcode = p.Barcode
       /\ out.images = <<>>

\* a record with a barcode and no price, applied to an example generated
\* with another title and another variant
C24_Witness ==
  /\ fnRes # <<>> /\ ~fnRes[1].threw
  /\ fnArg.product = pPlain
  /\ LatestExample.shopifyProduct.title # fnRes[1].result.title
  /\ LatestExample.shopifyProduct.variants # fnRes[1].result.variants
  /\ fnRes[1].result.variants[1].barcode = <<"b">>
  /\ fnRes[1].result.variants[1].price = <<"0">>
  /\ fnRes[1].result.images = <<>>

\* the call generated a product without the `product` envelope: the example
\* it pushed holds the wrapped object
BareGenerated ==
  /\ CallMade
  /\ last'.gen = "json"
  /\ LET k == generateCacheKey(last'.product) IN
       /\ k \in DOMAIN transformCache'.templates
       /\ LET ex == transformCache'.templates[k].examples IN
            /\ ex[Len(ex)].cachedAt = now'
            /\ ex[Len(ex)].shopifyProduct.selfRef

\* C25: when the generator returns the inner shape without the envelope,
\* the transform wraps it and completes: the example is written back, the
\* cache is persisted and the wrapped output is returned.
C25_BareShapeCompletes ==
  [][BareGenerated =>
       /\ last'.returned
       /\ last'.output.selfRef
       /\ disk'.exists
       /\ disk'.templates = transformCache'.templates]_vars

RECURSIVE Power(_, _)
Power(b, n) == IF n = 0 THEN 1 ELSE b * Power(b, n - 1)

Invocations == Len(fnRes.outcomes)

\* the attempts of a retryWithBackoff call: at most maxAttempts invocations,
\* at least one once the call is over, a success is the last invocation and
\* its result is returned, a throw follows maxAttempts errors and carries
\* the last one
RetryAttemptsAsClaimed ==
  /\ Invocations <= fnArg.maxAttempts
  /\ fnRes.pc \in {"returned", "thrown"} => Invocations >= 1
  /\ \A n \in 1..Invocations :
       fnRes.outcomes[n] = "ok" => n = Invocations /\ fnRes.pc = "returned"
  /\ fnRes.pc = "returned" =>
       /\ fnRes.outcomes[Invocations] = "ok"
       /\ fnRes.result = Invocations
  /\ fnRes.pc = "thrown" =>
       /\ Invocations = fnArg.maxAttempts
       /\ fnRes.lastError = fnArg.maxAttempts
  /\ Len(fnRes.waits) = fnRes.attempt - 1
       \/ /\ Len(fnRes.waits) = fnArg.maxAttempts - 1
          /\ fnRes.attempt = fnArg.maxAttempts + 1

\* C26: retryWithBackoff invokes the operation between once and maxAttempts
\* times, returns the first success, throws the last error when every
\* attempt fails, and waits initialDelay * backoffMultiplier^(k-1), capped
\* at maxDelay, before attempt k+1.
C26_RetryWithBackoff ==
  /\ RetryAttemptsAsClaimed
  /\ \A k \in DOMAIN fnRes.waits :
       fnRes.waits[k]
         = Min(fnArg.initialDelay * Power(fnArg.backoffMultiplier, k - 1),
               fnArg.maxDelay)

Loads == Cardinality({n \in DOMAIN runs : runs[n].loads = 1})

Lookups == Cardinality({n \in DOMAIN runs : runs[n].looked})

\* C27: the cache is loaded at most once in the process and every call,
\* also one started while the first load is pending, works on that one
\* instance: the counters hold the lookup of every call and the templates
\* hold every example a call has written.
C27_OneCacheInstance ==
  /\ Loads <= 1
  /\ transformCache.loaded =>
       /\ Hits + Misses = Lookups
       /\ \A k \in DOMAIN pushed :
            /\ k \in DOMAIN Templates
            /\ Templates[k].examples = pushed[k]

\* some call is between two of its awaits
Overlapping ==
  \E m, n \in DOMAIN runs :
    m # n /\ runs[m].pc \in {"generating", "saving"}
          /\ runs[n].pc \in {"generating", "saving"}

\* C30: whatever the interleaving of concurrent calls on the shared cache,
\* every template holds at most 5 examples and they are the most recently
\* appended ones in the order of their appending: nothing is lost but the
\* oldest, evicted first.
C30_InterleavedRetention ==
  \A k \in DOMAIN pushed :
    /\ k \in DOMAIN Templates
    /\ Len(Templates[k].examples) <= 5
    /\ Len(Templates[k].examples) = Min(5, Len(pushed[k]))
    /\ Templates[k].examples
         = MostRecent(pushed[k], Len(Templates[k].examples))

\* two calls under the key g|a|y were in flight together on a template of
\* four examples; the oldest example has been evicted
C30_Witness ==
  /\ Len(runs) >= 2
  /\ runs[1].pc = "saving" /\ runs[2].pc = "saving"
  /\ generateCacheKey(runs[1].product) = generateCacheKey(pA)
  /\ generateCacheKey(runs[2].product) = generateCacheKey(pA)
  /\ Len(pushed[generateCacheKey(pA)]) = 6
  /\ Len(Templates[generateCacheKey(pA)].examples) = 5
  /\ Templates[generateCacheKey(pA)].examples[1]
       = pushed[generateCacheKey(pA)][2]

C8_NoCreateForExistingSku ==
  /\ pc \in {"transform", "create"} => skuChecked
  /\ \A n \in DOMAIN drafts : drafts[n].checked /\ ~drafts[n].existed

Counted == stats.created + stats.alreadyExists + stats.skipped + stats.failed

\* C10: a record whose transform fails does not stop the batch: the loop
\* only ends after the last record, every record is processed exactly once
\* and counted in exactly one of created, alreadyExists, skipped, failed, and
\* every transform of the batch went through the one cache.
C10_BatchRunsToTheEnd ==
  /\ \A n \in DOMAIN processed : processed[n] <= 1
  /\ Counted = i
  /\ transformCache.loaded => Hits + Misses = calls
  /\ pc \in {"check", "transform", "create"} => i < Len(records)
  /\ pc = "done" =>
       /\ i = Len(records)
       /\ \A n \in DOMAIN processed : processed[n] = 1
       /\ Counted = Len(records)

\* the first record failed after three transform attempts, the second was
\* generated, cached and created
C10_Witness ==
  /\ pc = "done"
  /\ Len(records) = 2
  /\ stats.failed = 1 /\ stats.created = 1
  /\ Len(drafts) = 1
  /\ calls >= 4
  /\ last.returned /\ last.path = "generate"
  /\ generateCacheKey(last.product) \in DOMAIN Templates

\* C28: a product looked up against a non-empty template under its own key has
\* similarity 1.0 to every example of it, so the call is served from the
\* template and asks no generator.
C28_SameKeyAlwaysHits ==
  [][CallMade =>
       LET k == generateCacheKey(last'.product) IN
       (k \in DOMAIN Templates /\ Len(Templates[k].examples) >= 1) =>
         /\ \A n \in DOMAIN Templates[k].examples :
              calculateSimilarity(last'.product,
                                  Templates[k].examples[n].sourceProduct) = 10
         /\ last'.genCalls = 0]_vars

\* C29: after any sequence of transforms the hit rate getCacheStats reports is
\* cacheHits / (cacheHits + cacheMisses) as a percentage, hence between 0% and
\* 100%.
C29_HitRateOverLookups ==
  LET reported == getCacheStats(transformCache) IN
  /\ reported.hitRate >= 0
  /\ reported.hitRate <= 1000
  /\ reported.cacheHits + reported.cacheMisses > 0 =>
       reported.hitRate = PercentTenths(reported.cacheHits,
                                     reported.cacheHits + reported.cacheMisses)

====
